---- MODULE Spec2Model ----
(***************************************************************************)
(* Model of the CryoAtom / CryoSPARC pipeline scripts:                     *)
(*   run_cryoatom.py            stage inputs and run the modeling tool     *)
(*   run_cryoatom_auto.py       pick a GPU, run run_cryoatom.py, publish   *)
(*   cryoatom_external_job.py   wrap run_cryoatom_auto.py in an External   *)
(*                              Job and resolve the model file             *)
(***************************************************************************)
EXTENDS Integers, Sequences, FiniteSets

(***************************************************************************)
(* Bounds and value domains                                                *)
(***************************************************************************)
MaxLines == 2
MaxTokens == 1
MaxKeys == 3
MaxRows == 2
MaxExtChanges == 1

MaxComps == 3

GpuIds == {0, 1}
MemUsedLevels == {0, 1}
MemTotalLevels == {0, 2}
UtilLevels == {0, 1}

RECURSIVE SeqsUpTo(_, _)
SeqsUpTo(S, n) ==
  IF n = 0 THEN {<<>>}
  ELSE LET shorter == SeqsUpTo(S, n - 1)
       IN  shorter \cup {Append(s, x) : s \in {t \in shorter : Len(t) = n - 1}, x \in S}

(***************************************************************************)
(* Accelerator selection: run_cryoatom_auto.pick_free_gpu                  *)
(***************************************************************************)

\* One line of the nvidia-smi CSV output, after split(",") and strip():
\* nparts is len(parts); numeric says whether int(parts[0]) and the three
\* float() conversions succeed; idx, used, total, util are the parsed values.
WellFormedLines ==
  [nparts : {4}, numeric : {TRUE}, idx : GpuIds, used : MemUsedLevels,
   total : MemTotalLevels, util : UtilLevels]

ShortLine == [nparts |-> 3, numeric |-> TRUE, idx |-> 0, used |-> 0, total |-> 0, util |-> 0]

NonNumericLine == [nparts |-> 4, numeric |-> FALSE, idx |-> 0, used |-> 0, total |-> 0, util |-> 0]

SmiLines == WellFormedLines \cup {ShortLine, NonNumericLine}

SmiOutputs == SeqsUpTo(SmiLines, MaxLines)

\* One comma-separated token of CUDA_VISIBLE_DEVICES:
\*   "digits"   x.strip().isdigit() holds and int(x) = val
\*   "name"     isdigit() fails (a GPU UUID, an empty token): filtered out
\*   "supdigit" isdigit() holds but int(x) raises ValueError (e.g. a
\*              superscript digit)
VisibleTokens ==
  [kind : {"digits"}, val : GpuIds] \cup
  {[kind |-> "name", val |-> 0], [kind |-> "supdigit", val |-> 0]}

\* The environment variable: unset, or a string given by its tokens
\* (no token at all is the empty string).
VisibleValues ==
  {[present |-> FALSE, toks |-> <<>>]} \cup
  [present : {TRUE}, toks : SeqsUpTo(VisibleTokens, MaxTokens)]

\* `if visible:` -- None and "" are both falsy
VisibleTruthy(visible) == visible.present /\ Len(visible.toks) > 0

\* Variant of parse_visible that never restricts the candidates
parse_visible_unrestricted(visible) ==
  [restrict |-> FALSE, ids |-> {}, warned |-> FALSE]

\* lines 71-81: the allow-list, None when the variable is unset/empty or
\* when the set comprehension raises
parse_visible(visible) ==
  IF ~VisibleTruthy(visible)
  THEN [restrict |-> FALSE, ids |-> {}, warned |-> FALSE]
  ELSE IF \E i \in 1..Len(visible.toks) : visible.toks[i].kind = "supdigit"
       THEN [restrict |-> FALSE, ids |-> {}, warned |-> TRUE]
       ELSE [restrict |-> TRUE,
             ids |-> {visible.toks[i].val : i \in {j \in 1..Len(visible.toks) :
                                                     visible.toks[j].kind = "digits"}},
             warned |-> FALSE]

\* max(mem_total, 1.0)
MaxOf(a, b) == IF a > b THEN a ELSE b

\* score = (mem_used / max(mem_total, 1.0), util); the ratio is kept as an
\* exact fraction num/den with den >= 1
gpu_score(line) == [num |-> line.used, den |-> MaxOf(line.total, 1), util |-> line.util]

\* Variant of score_less with <= in place of <: a later line wins a tie
score_less_or_equal(a, b) ==
  \/ a.num * b.den < b.num * a.den
  \/ /\ a.num * b.den = b.num * a.den
     /\ a.util <= b.util

\* Python tuple comparison score < best_score
score_less(a, b) ==
  \/ a.num * b.den < b.num * a.den
  \/ /\ a.num * b.den = b.num * a.den
     /\ a.util < b.util

NoBest == [has |-> FALSE, idx |-> 0, score |-> [num |-> 0, den |-> 1, util |-> 0]]

\* lines 96-119: the loop over the output lines, from line i on
RECURSIVE scan_lines(_, _, _, _)
scan_lines(out, allowed, i, best) ==
  IF i > Len(out) THEN best
  ELSE LET line == out[i] IN
    IF line.nparts < 4 THEN scan_lines(out, allowed, i + 1, best)
    ELSE IF ~line.numeric THEN scan_lines(out, allowed, i + 1, best)
    ELSE IF allowed.restrict /\ line.idx \notin allowed.ids
         THEN scan_lines(out, allowed, i + 1, best)
    ELSE IF ~best.has \/ score_less(gpu_score(line), best.score)
         THEN scan_lines(out, allowed, i + 1,
                         [has |-> TRUE, idx |-> line.idx, score |-> gpu_score(line)])
         ELSE scan_lines(out, allowed, i + 1, best)

\* Variant of smi_failure without the except clause: the error propagates
smi_failure_propagates == [ret |-> 0, warned |-> FALSE, raised |-> TRUE]

\* What the nvidia-smi call does when it fails: the except clause returns 0
smi_failure == [ret |-> 0, warned |-> TRUE, raised |-> FALSE]

\* Variant of pick_free_gpu in which one malformed line makes the whole
\* output unusable
pick_free_gpu_malformed_falls_back(visible, smiFails, out) ==
  LET allowed == parse_visible(visible)
      best == scan_lines(out, allowed, 1, NoBest)
      malformed == \E i \in 1..Len(out) : out[i].nparts < 4 \/ ~out[i].numeric
  IN  IF smiFails THEN smi_failure
      ELSE IF malformed \/ ~best.has THEN [ret |-> 0, warned |-> TRUE, raised |-> FALSE]
      ELSE [ret |-> best.idx, warned |-> allowed.warned, raised |-> FALSE]

\* lines 65-128.  smiFails: subprocess.check_output raised (binary absent or
\* non-zero exit); out: its output otherwise.
pick_free_gpu(visible, smiFails, out) ==
  LET allowed == parse_visible(visible)
      best == scan_lines(out, allowed, 1, NoBest)
  IN  IF smiFails THEN smi_failure
      ELSE IF ~best.has THEN [ret |-> 0, warned |-> TRUE, raised |-> FALSE]
      ELSE [ret |-> best.idx, warned |-> allowed.warned, raised |-> FALSE]

\* Two pipeline instances that select at the same time, and what they read
Instances == {1, 2}

ConSnapshots == {o \in SmiOutputs : Len(o) <= 2}

ConVisibleValues == {v \in VisibleValues : Len(v.toks) <= 1}

(***************************************************************************)
(* Map field choice: run_cryoatom.choose_map_field                         *)
(***************************************************************************)

\* A field name is the sequence of its "/"-separated segments:
\* "map_sharp/path" is <<"map_sharp", "path">>.
FieldNames ==
  { <<"map_sharp", "path">>, <<"map", "path">>, <<"map_half_A", "path">>,
    <<"map_half_B", "path">>, <<"other", "path">>, <<"map", "psize_A">>, <<"path">> }

\* The empty string
EmptyName == <<>>

\* A name that is a key of no row
AbsentName == <<"mask", "path">>

\* The keys of one dataset row, in row order, without repetition
RowKeys ==
  {r \in SeqsUpTo(FieldNames, MaxKeys) : \A i, j \in 1..Len(r) : i # j => r[i] # r[j]}

\* The --map-field argument: None, or a string
ExplicitValues ==
  {[none |-> TRUE, name |-> EmptyName]} \cup
  [none : {FALSE}, name : FieldNames \cup {EmptyName, AbsentName}]

\* lines 121-126
preferred ==
  << <<"map_sharp", "path">>, <<"map", "path">>,
     <<"map_half_A", "path">>, <<"map_half_B", "path">> >>

\* `k in keys`
in_keys(k, keys) == \E i \in 1..Len(keys) : keys[i] = k

\* k.endswith("/path"): a last segment "path" preceded by a "/"
ends_with_path(k) == Len(k) >= 2 /\ k[Len(k)] = "path"

FieldFound(k) == [ok |-> TRUE, field |-> k]

\* raise RuntimeError
FieldError == [ok |-> FALSE, field |-> EmptyName]

\* lines 131-135: the scan of the keys in row order, from position i on
RECURSIVE scan_path_keys(_, _)
scan_path_keys(keys, i) ==
  IF i > Len(keys) THEN FieldError
  ELSE IF ends_with_path(keys[i]) THEN FieldFound(keys[i])
  ELSE scan_path_keys(keys, i + 1)

\* lines 127-129: the scan of the preference list, from position p on
RECURSIVE scan_preferred(_, _)
scan_preferred(keys, p) ==
  IF p > Len(preferred) THEN scan_path_keys(keys, 1)
  ELSE IF in_keys(preferred[p], keys) THEN FieldFound(preferred[p])
  ELSE scan_preferred(keys, p + 1)

\* `if explicit:` -- None and "" are both falsy
explicit_truthy(explicit) == ~explicit.none /\ explicit.name # EmptyName

\* Variant of choose_map_field that selects automatically when the explicit
\* field is not a key of the row
choose_map_field_lenient(keys, explicit) ==
  IF explicit_truthy(explicit) /\ in_keys(explicit.name, keys)
  THEN FieldFound(explicit.name)
  ELSE scan_preferred(keys, 1)

\* lines 113-135
choose_map_field(keys, explicit) ==
  IF explicit_truthy(explicit)
  THEN IF in_keys(explicit.name, keys) THEN FieldFound(explicit.name) ELSE FieldError
  ELSE scan_preferred(keys, 1)

(***************************************************************************)
(* Working directory layout: the three main() functions                    *)
(***************************************************************************)

\* A path is the sequence of its components; a component is a tuple, so that
\* a formatted name such as f"cryoatom_{project.uid}_{job.uid}" is one
\* component <<"cryoatom", uid, uid>>.
Seg(s) == <<s>>

\* --out-dir: None, or a string.  A string is given by the components of an
\* absolute path as typed (a "." component included); <<>> is "".
OutDirArgs ==
  {[none |-> TRUE, str |-> <<>>]} \cup
  [none : {FALSE},
   str : {<<>>, <<Seg("ovr")>>, <<Seg("ovr"), Seg(".")>>, <<Seg("scratch"), Seg("ovr")>>}]

\* `if args.out_dir:`
out_dir_truthy(arg) == ~arg.none /\ arg.str # <<>>

\* pathlib.Path(str): "." components are dropped
RECURSIVE to_path(_)
to_path(str) ==
  IF str = <<>> THEN <<>>
  ELSE IF Head(str) = Seg(".") THEN to_path(Tail(str))
  ELSE <<Head(str)>> \o to_path(Tail(str))

\* A project or job object of cryosparc-tools: its uid and its dir, which is
\* an attribute or a method
ProjectObjects ==
  [uid : {"P1", "P2"}, dir : {<<Seg("projects"), Seg("CS-a")>>}, dirCallable : BOOLEAN]

JobObjects ==
  [uid : {"J1", "J2"}, dir : {<<Seg("projects"), Seg("CS-a"), Seg("J")>>}, dirCallable : BOOLEAN]

\* safe_dir (run_cryoatom.py 107-110, run_cryoatom_auto.py 59-62,
\* cryoatom_external_job.py 65-68)
safe_dir(obj) == IF obj.dirCallable THEN to_path(obj.dir) ELSE to_path(obj.dir)

\* run_cryoatom.main lines 218-221
run_work_dir(outDir, project, job) ==
  IF out_dir_truthy(outDir) THEN to_path(outDir.str)
  ELSE safe_dir(project) \o << <<"cryoatom", project.uid, job.uid>> >>

\* run_cryoatom.main lines 244 and 272
run_out_dir(workDir) == workDir \o <<Seg("out")>>

run_out_cif(workDir) == run_out_dir(workDir) \o <<Seg("out.cif")>>

\* Variant of auto_work_dir that builds the directory name from the job
\* directory instead of the project directory
auto_work_dir_in_job_dir(outDir, project, job) ==
  IF out_dir_truthy(outDir) THEN to_path(outDir.str)
  ELSE safe_dir(job) \o << <<"cryoatom", project.uid, job.uid>> >>

\* run_cryoatom_auto.main lines 247-251
auto_work_dir(outDir, project, job) ==
  IF out_dir_truthy(outDir) THEN to_path(outDir.str)
  ELSE safe_dir(project) \o << <<"cryoatom", project.uid, job.uid>> >>

\* Variant of auto_out_cif that expects out.cif directly in the working
\* directory
auto_out_cif_flat(workDir) == workDir \o <<Seg("out.cif")>>

\* run_cryoatom_auto.main lines 253-254
auto_out_cif(workDir) == (workDir \o <<Seg("out")>>) \o <<Seg("out.cif")>>

\* cryoatom_external_job.main lines 258-262
ej_work_dir(outDir, project, srcJob) ==
  IF out_dir_truthy(outDir) THEN to_path(outDir.str)
  ELSE safe_dir(project) \o << <<"cryoatom", project.uid, srcJob.uid>> >>

\* cryoatom_external_job.main lines 264-265
ej_out_cif(workDir) == (workDir \o <<Seg("out")>>) \o <<Seg("out.cif")>>

\* run_cryoatom_auto.main lines 263-267
auto_dest_file(project, job) ==
  (safe_dir(job) \o <<Seg("cryoatom")>>) \o << <<project.uid, job.uid, "cryoatom.cif">> >>

\* cryoatom_external_job.main lines 268-270
ej_dest_file(project, srcJob) ==
  (safe_dir(srcJob) \o <<Seg("cryoatom")>>) \o << <<project.uid, srcJob.uid, "cryoatom.cif">> >>

(***************************************************************************)
(* The pipeline: command lines, environment, exit codes                    *)
(***************************************************************************)

\* --gpu absent / args.gpu is None
NoGpu == -1

\* A process that has not exited; a tool that has not run
NotExited == -1

\* The exit codes the modeling tool returns in the model
ToolExitCodes == {0, 1, 137}

\* The status a parent reads after sys.exit(n)
exit_status(n) == n % 256

\* The variables read at import time (the CS dict of each script)
EnvVars == {"CS_HOST", "CS_BASE_PORT", "CS_EMAIL", "CS_PASSWORD", "CS_LICENSE_ID"}

\* get_env: the variables whose absence raises RuntimeError; CS_HOST and
\* CS_BASE_PORT are read with os.getenv and a default
RequiredEnvVars == {"CS_EMAIL", "CS_PASSWORD", "CS_LICENSE_ID"}

\* Variant of import_fails in which the license id is read with a default
import_fails_license_optional(unset) == unset \cap {"CS_EMAIL", "CS_PASSWORD"} # {}

\* The module-level CS = dict(...) raises
import_fails(unset) == unset \cap RequiredEnvVars # {}

\* The options of a command line the model follows: --gpu, --out-dir,
\* --no-copy-map.  (--map-field, --row-index, --fasta, --volume-output are
\* passed on unchanged and drawn where run_cryoatom.py consumes them.)
PipeOutDirs == {[none |-> TRUE, str |-> <<>>], [none |-> FALSE, str |-> <<Seg("ovr")>>]}

CliArgs == [gpu : {NoGpu} \cup GpuIds, outDir : PipeOutDirs, noCopyMap : BOOLEAN]

NoArgs == [gpu |-> NoGpu, outDir |-> [none |-> TRUE, str |-> <<>>], noCopyMap |-> FALSE]

\* The project and job the scripts find
TheProject == [uid |-> "P1", dir |-> <<Seg("projects"), Seg("CS-a")>>, dirCallable |-> FALSE]

TheJob == [uid |-> "J1", dir |-> <<Seg("projects"), Seg("CS-a"), Seg("J1")>>, dirCallable |-> TRUE]

\* run_cryoatom.parse_args: --gpu defaults to 0
run_parse_args(cmd) == [cmd EXCEPT !.gpu = IF cmd.gpu = NoGpu THEN 0 ELSE cmd.gpu]

\* Variant of auto_cmd that forwards the caller's --gpu, not the chosen index
auto_cmd_forwards_caller_gpu(args, gpu) ==
  [gpu |-> args.gpu,
   outDir |-> IF out_dir_truthy(args.outDir) THEN args.outDir ELSE [none |-> TRUE, str |-> <<>>],
   noCopyMap |-> args.noCopyMap]

\* run_cryoatom_auto.main lines 197-219: the command line for run_cryoatom.py
auto_cmd(args, gpu) ==
  [gpu |-> gpu,
   outDir |-> IF out_dir_truthy(args.outDir) THEN args.outDir ELSE [none |-> TRUE, str |-> <<>>],
   noCopyMap |-> args.noCopyMap]

\* Variant of ej_cmd that tests `if args.gpu:` and so drops --gpu 0
ej_cmd_gpu_truthy(args) ==
  [gpu |-> IF args.gpu # NoGpu /\ args.gpu # 0 THEN args.gpu ELSE NoGpu,
   outDir |-> IF out_dir_truthy(args.outDir) THEN args.outDir ELSE [none |-> TRUE, str |-> <<>>],
   noCopyMap |-> args.noCopyMap]

\* cryoatom_external_job.main lines 190-211: the command line for
\* run_cryoatom_auto.py
ej_cmd(args) ==
  [gpu |-> IF args.gpu # NoGpu THEN args.gpu ELSE NoGpu,
   outDir |-> IF out_dir_truthy(args.outDir) THEN args.outDir ELSE [none |-> TRUE, str |-> <<>>],
   noCopyMap |-> args.noCopyMap]

\* The raw path of the map in the dataset row: relative to the project
\* directory, or absolute
MapRawPaths ==
  { [abs |-> FALSE, comps |-> <<Seg("J1"), Seg("map.mrc")>>],
    [abs |-> FALSE, comps |-> <<Seg("."), Seg("J1"), Seg("map.mrc")>>],
    [abs |-> TRUE, comps |-> <<Seg("projects"), Seg("CS-a"), Seg("J1"), Seg("map.mrc")>>] }

\* The raw paths, base directories and symbolic links given to the path
\* resolution on its own
PathComps == {Seg("J1"), Seg("map.mrc"), Seg("lnk"), Seg("."), Seg("..")}

RawPathArgs == [abs : BOOLEAN, comps : SeqsUpTo(PathComps, MaxComps)]

BaseDirs == {<<Seg("projects"), Seg("CS-a")>>, <<Seg("projects"), Seg("CS-b")>>}

LinkTables ==
  SUBSET {[from |-> <<Seg("lnk")>>, to |-> <<Seg("data")>>],
          [from |-> <<Seg("projects"), Seg("CS-a"), Seg("lnk")>>, to |-> <<Seg("data"), Seg("J1")>>]}

\* Path.resolve() on an absolute path: walk the components from the root,
\* drop ".", step back on ".." (the root is its own parent) and replace a
\* prefix that is a symbolic link by its target
RECURSIVE walk_resolve(_, _, _)
walk_resolve(links, done, rest) ==
  IF rest = <<>> THEN done
  ELSE LET c == Head(rest)
           next == Append(done, c)
       IN  IF c = Seg(".") THEN walk_resolve(links, done, Tail(rest))
           ELSE IF c = Seg("..")
           THEN walk_resolve(links,
                             IF done = <<>> THEN <<>> ELSE SubSeq(done, 1, Len(done) - 1),
                             Tail(rest))
           ELSE IF \E l \in links : l.from = next
           THEN walk_resolve(links, (CHOOSE l \in links : l.from = next).to, Tail(rest))
           ELSE walk_resolve(links, next, Tail(rest))

path_resolve(links, path) == walk_resolve(links, <<>>, path)

\* Variant of resolve_map_path that puts the project directory in front of
\* every raw path
resolve_map_path_always_joined(links, projectDir, raw) ==
  path_resolve(links, projectDir \o to_path(raw.comps))

\* run_cryoatom.main lines 201-206
resolve_map_path(links, projectDir, raw) ==
  IF raw.abs THEN path_resolve(links, to_path(raw.comps))
  ELSE path_resolve(links, projectDir \o to_path(raw.comps))

\* A path together with the directories above it: what mkdir(parents=True)
\* leaves behind, and what the existence of a file implies
with_parents(path) == {SubSeq(path, 1, k) : k \in 1..Len(path)}

\* The two places a model file is looked for, for the command line cli
RawCifOf(cli) == run_out_cif(run_work_dir(cli.outDir, TheProject, TheJob))

DestCifOf == auto_dest_file(TheProject, TheJob)

\* Telemetry and row inputs of one pipeline run
PipeSmiOutputs == {o \in SmiOutputs : Len(o) <= 1}

PipeRowKeys == {r \in RowKeys : Len(r) <= 2}

RowIndexArgs == (0 - 1)..MaxRows

\* ds and args.row_index, with no dataset loaded or after the row is read
NoRow == [rows |-> 0, idx |-> 0]

\* Captured output of run_cryoatom_auto.py, as its lines ("" is a blank line)
StdoutTexts == {<<>>, <<"o1", "o2">>}

StderrTexts == {<<>>, <<"">>, <<"e1">>}

\* `if proc.stderr.strip():`
strip_truthy(text) == \E i \in 1..Len(text) : text[i] # ""

LogEntry(tag, text) == [tag |-> tag, text |-> text]

\* lines 237-238, 241-242, 248-249, 252-253: one log entry per line
log_lines(tag, text) == [i \in 1..Len(text) |-> LogEntry(tag, text[i])]

VARIABLES
  selVisible,   \* CUDA_VISIBLE_DEVICES seen by the selection
  selOut,       \* the nvidia-smi output
  selFails,     \* whether the nvidia-smi call failed
  selDone,      \* pick_free_gpu has returned (or raised)
  selResult,    \* its outcome [ret, warned, raised]
  fldKeys,      \* the keys of the row given to choose_map_field
  fldExplicit,  \* its explicit argument
  fldDone,      \* choose_map_field has returned (or raised)
  fldResult,    \* its outcome [ok, field]
  layOutDir,    \* --out-dir given to the three scripts
  layProject,   \* the project object each of them finds
  layJob,       \* the job object each of them finds
  layRun,       \* run_cryoatom.py's [done, work, cif]
  layAuto,      \* run_cryoatom_auto.py's [done, work, cif]
  layEj,        \* cryoatom_external_job.py's [done, work, cif]
  entry,        \* the script the user starts: "ej", "auto" or "run"
  cli,          \* its command line
  envUnset,     \* the environment variables that are not set
  fs,           \* the paths that exist, of those the pipeline writes
  fsAtTool,     \* fs when the tool process ended
  extChanges,   \* changes of fs made by others
  runPc,        \* run_cryoatom.py: position
  runArgs,      \*   parsed arguments
  runExit,      \*   exit code
  runWhy,       \*   cause of a fatal exit
  runMapPath,   \*   map_path
  runRow,       \*   len(ds) and row_index at the range check
  toolRuns,     \* launches of the modeling tool
  toolCmd,      \* its last command line
  toolRc,       \* its exit code
  toolWrote,    \* whether it wrote out.cif
  autoPc,       \* run_cryoatom_auto.py: position
  autoArgs,     \*   parsed arguments
  autoGpu,      \*   gpu
  autoExit,     \*   exit code
  autoWhy,      \*   cause of a fatal exit
  autoKind,     \*   where it found the model file
  autoLog,      \*   logger records, by level
  smiCalls,     \* launches of nvidia-smi
  copies,       \* shutil.copy2 calls into <job_dir>/cryoatom
  jobLog,       \* log of the destination job
  ejPc,         \* cryoatom_external_job.py: position
  ejArgs,       \*   parsed arguments
  ejExit,       \*   exit code
  ejWhy,        \*   cause of a fatal exit
  ejLog,        \*   log of the External Job
  ejStatus,     \*   status of the External Job
  ejKind,       \*   where it found the model file
  ejSawFs,      \*   fs when it looked
  ejCaptured,   \*   proc.stdout / proc.stderr of the child, once it has ended
  resRaw,       \* the raw map path given to the path resolution
  resBase,      \* the project directory it is resolved against
  resOtherBase, \* another project directory
  resLinks,     \* the symbolic links of the file system
  resOut,       \* [done, path]: the path resolved against resBase
  resOther,     \* [done, path]: the same raw path resolved against resOtherBase
  resAgain,     \* [done, path]: the resolved path resolved again
  conTelemetry, \* what nvidia-smi reports while two instances select
  conVisible,   \* CUDA_VISIBLE_DEVICES of each instance
  conPc,        \* each instance's position in pick_free_gpu
  conAllowed,   \* its allowed
  conOut,       \* its out
  conFails,     \* whether its nvidia-smi call failed
  conResult     \* its outcome [ret, warned, raised]

selVars == <<selVisible, selOut, selFails, selDone, selResult>>

fldVars == <<fldKeys, fldExplicit, fldDone, fldResult>>

layVars == <<layOutDir, layProject, layJob, layRun, layAuto, layEj>>

envVars == <<entry, cli, envUnset>>

fsVars == <<fs, fsAtTool, extChanges>>

runVars == <<runPc, runArgs, runExit, runWhy, runMapPath, runRow, toolRuns, toolCmd, toolRc, toolWrote>>

autoVars == <<autoPc, autoArgs, autoGpu, autoExit, autoWhy, autoKind, autoLog, smiCalls, copies, jobLog>>

ejVars == <<ejPc, ejArgs, ejExit, ejWhy, ejLog, ejStatus, ejKind, ejSawFs, ejCaptured>>

pipeVars == <<envVars, fsVars, runVars, autoVars, ejVars>>

resVars == <<resRaw, resBase, resOtherBase, resLinks, resOut, resOther, resAgain>>

conVars == <<conTelemetry, conVisible, conPc, conAllowed, conOut, conFails, conResult>>

extraVars == <<resVars, conVars>>

vars == <<selVars, fldVars, layVars, pipeVars, extraVars>>

NoResult == [ret |-> 0, warned |-> FALSE, raised |-> FALSE]

\* No selection is under observation
SelIdle ==
  /\ selVisible = [present |-> FALSE, toks |-> <<>>]
  /\ selOut = <<>>
  /\ selFails = FALSE
  /\ selDone = FALSE
  /\ selResult = NoResult

\* No field choice is under observation
FldIdle ==
  /\ fldKeys = <<>>
  /\ fldExplicit = [none |-> TRUE, name |-> EmptyName]
  /\ fldDone = FALSE
  /\ fldResult = FieldError

NotComputed == [done |-> FALSE, work |-> <<>>, cif |-> <<>>]

\* No layout is under observation
LayIdle ==
  /\ layOutDir = [none |-> TRUE, str |-> <<>>]
  /\ layProject = [uid |-> "P1", dir |-> <<Seg("projects"), Seg("CS-a")>>, dirCallable |-> FALSE]
  /\ layJob = [uid |-> "J1", dir |-> <<Seg("projects"), Seg("CS-a"), Seg("J")>>, dirCallable |-> FALSE]
  /\ layRun = NotComputed
  /\ layAuto = NotComputed
  /\ layEj = NotComputed

NoToolCmd == [s |-> <<>>, v |-> <<>>, o |-> <<>>, d |-> NoGpu, cwd |-> <<>>]

NotCaptured == [done |-> FALSE, out |-> <<>>, err |-> <<>>]

RunOff ==
  /\ runPc = "off"
  /\ runArgs = NoArgs
  /\ runExit = NotExited
  /\ runWhy = ""
  /\ runMapPath = <<>>
  /\ runRow = NoRow
  /\ toolRuns = 0
  /\ toolCmd = NoToolCmd
  /\ toolRc = NotExited
  /\ toolWrote = FALSE

AutoOff ==
  /\ autoPc = "off"
  /\ autoArgs = NoArgs
  /\ autoGpu = NoGpu
  /\ autoExit = NotExited
  /\ autoWhy = ""
  /\ autoKind = "none"
  /\ autoLog = <<>>
  /\ smiCalls = 0
  /\ copies = 0
  /\ jobLog = <<>>

EjOff ==
  /\ ejPc = "off"
  /\ ejArgs = NoArgs
  /\ ejExit = NotExited
  /\ ejWhy = ""
  /\ ejLog = <<>>
  /\ ejStatus = "none"
  /\ ejKind = "none"
  /\ ejSawFs = {}
  /\ ejCaptured = NotCaptured

NotResolved == [done |-> FALSE, path |-> <<>>]

\* No path resolution is under observation
ResIdle ==
  /\ resRaw = [abs |-> FALSE, comps |-> <<>>]
  /\ resBase = <<>>
  /\ resOtherBase = <<>>
  /\ resLinks = {}
  /\ resOut = NotResolved
  /\ resOther = NotResolved
  /\ resAgain = NotResolved

NoAllowList == [restrict |-> FALSE, ids |-> {}, warned |-> FALSE]

\* No concurrent selection is under observation
ConIdle ==
  /\ conTelemetry = <<>>
  /\ conVisible = [i \in Instances |-> [present |-> FALSE, toks |-> <<>>]]
  /\ conPc = [i \in Instances |-> "off"]
  /\ conAllowed = [i \in Instances |-> NoAllowList]
  /\ conOut = [i \in Instances |-> <<>>]
  /\ conFails = [i \in Instances |-> FALSE]
  /\ conResult = [i \in Instances |-> NoResult]

\* No pipeline is under observation
PipeIdle ==
  /\ entry = "none"
  /\ cli = NoArgs
  /\ envUnset = {}
  /\ fs = {}
  /\ fsAtTool = {}
  /\ extChanges = 0
  /\ RunOff
  /\ AutoOff
  /\ EjOff

SelInit ==
  /\ ResIdle
  /\ ConIdle
  /\ FldIdle
  /\ LayIdle
  /\ PipeIdle
  /\ selVisible \in VisibleValues
  /\ selOut \in SmiOutputs
  /\ selFails = FALSE
  /\ selDone = FALSE
  /\ selResult = NoResult

\* One call of pick_free_gpu with a working telemetry tool
SelectOk ==
  /\ ~selDone
  /\ selFails' = FALSE
  /\ selResult' = pick_free_gpu(selVisible, FALSE, selOut)
  /\ selDone' = TRUE
  /\ UNCHANGED <<selVisible, selOut, fldVars, layVars, pipeVars, extraVars>>

\* One call of pick_free_gpu whose telemetry query fails
SelectSmiFails ==
  /\ ~selDone
  /\ selFails' = TRUE
  /\ selResult' = pick_free_gpu(selVisible, TRUE, selOut)
  /\ selDone' = TRUE
  /\ UNCHANGED <<selVisible, selOut, fldVars, layVars, pipeVars, extraVars>>

SelNext == SelectOk \/ SelectSmiFails

SpecSelect == SelInit /\ [][SelNext]_vars

FldInit ==
  /\ ResIdle
  /\ ConIdle
  /\ SelIdle
  /\ LayIdle
  /\ PipeIdle
  /\ fldKeys \in RowKeys
  /\ fldExplicit \in ExplicitValues
  /\ fldDone = FALSE
  /\ fldResult = FieldError

\* One call of choose_map_field(row, explicit)
ChooseField ==
  /\ ~fldDone
  /\ fldResult' = choose_map_field(fldKeys, fldExplicit)
  /\ fldDone' = TRUE
  /\ UNCHANGED <<fldKeys, fldExplicit, selVars, layVars, pipeVars, extraVars>>

FldNext == ChooseField

SpecField == FldInit /\ [][FldNext]_vars

LayInit ==
  /\ ResIdle
  /\ ConIdle
  /\ SelIdle
  /\ FldIdle
  /\ PipeIdle
  /\ layOutDir \in OutDirArgs
  /\ layProject \in ProjectObjects
  /\ layJob \in JobObjects
  /\ layRun = NotComputed
  /\ layAuto = NotComputed
  /\ layEj = NotComputed

\* run_cryoatom.py derives its working directory and result path
RunLayout ==
  /\ ~layRun.done
  /\ LET w == run_work_dir(layOutDir, layProject, layJob)
     IN  layRun' = [done |-> TRUE, work |-> w, cif |-> run_out_cif(w)]
  /\ UNCHANGED <<layOutDir, layProject, layJob, layAuto, layEj, selVars, fldVars, pipeVars, extraVars>>

\* run_cryoatom_auto.py derives them again
AutoLayout ==
  /\ ~layAuto.done
  /\ LET w == auto_work_dir(layOutDir, layProject, layJob)
     IN  layAuto' = [done |-> TRUE, work |-> w, cif |-> auto_out_cif(w)]
  /\ UNCHANGED <<layOutDir, layProject, layJob, layRun, layEj, selVars, fldVars, pipeVars, extraVars>>

\* cryoatom_external_job.py derives them again
EjLayout ==
  /\ ~layEj.done
  /\ LET w == ej_work_dir(layOutDir, layProject, layJob)
     IN  layEj' = [done |-> TRUE, work |-> w, cif |-> ej_out_cif(w)]
  /\ UNCHANGED <<layOutDir, layProject, layJob, layRun, layAuto, selVars, fldVars, pipeVars, extraVars>>

LayNext == RunLayout \/ AutoLayout \/ EjLayout

SpecLayout == LayInit /\ [][LayNext]_vars

ResInit ==
  /\ SelIdle
  /\ ConIdle
  /\ FldIdle
  /\ LayIdle
  /\ PipeIdle
  /\ resRaw \in RawPathArgs
  /\ resBase \in BaseDirs
  /\ resOtherBase \in BaseDirs
  /\ resLinks \in LinkTables
  /\ resOut = NotResolved
  /\ resOther = NotResolved
  /\ resAgain = NotResolved

\* run_cryoatom.main lines 199-206 on the raw path of the row
ResolveMap ==
  /\ ~resOut.done
  /\ resOut' = [done |-> TRUE, path |-> resolve_map_path(resLinks, resBase, resRaw)]
  /\ UNCHANGED <<resRaw, resBase, resOtherBase, resLinks, resOther, resAgain>>
  /\ UNCHANGED <<selVars, fldVars, layVars, pipeVars, conVars>>

\* The same lines in a run whose project directory is resOtherBase
ResolveMapOtherBase ==
  /\ ~resOther.done
  /\ resOther' = [done |-> TRUE, path |-> resolve_map_path(resLinks, resOtherBase, resRaw)]
  /\ UNCHANGED <<resRaw, resBase, resOtherBase, resLinks, resOut, resAgain>>
  /\ UNCHANGED <<selVars, fldVars, layVars, pipeVars, conVars>>

\* The same lines on str(map_path) of an earlier resolution
ResolveMapAgain ==
  /\ resOut.done
  /\ ~resAgain.done
  /\ resAgain' = [done |-> TRUE,
                  path |-> resolve_map_path(resLinks, resOtherBase,
                                            [abs |-> TRUE, comps |-> resOut.path])]
  /\ UNCHANGED <<resRaw, resBase, resOtherBase, resLinks, resOut, resOther>>
  /\ UNCHANGED <<selVars, fldVars, layVars, pipeVars, conVars>>

ResNext == ResolveMap \/ ResolveMapOtherBase \/ ResolveMapAgain

SpecResolve == ResInit /\ [][ResNext]_vars

ConInit ==
  /\ SelIdle
  /\ FldIdle
  /\ LayIdle
  /\ PipeIdle
  /\ ResIdle
  /\ conTelemetry \in ConSnapshots
  /\ conVisible \in [Instances -> ConVisibleValues]
  /\ conPc = [i \in Instances |-> "env"]
  /\ conAllowed = [i \in Instances |-> NoAllowList]
  /\ conOut = [i \in Instances |-> <<>>]
  /\ conFails = [i \in Instances |-> FALSE]
  /\ conResult = [i \in Instances |-> NoResult]

\* lines 71-81: instance i reads CUDA_VISIBLE_DEVICES
ConReadEnv(i) ==
  /\ conPc[i] = "env"
  /\ conAllowed' = [conAllowed EXCEPT ![i] = parse_visible(conVisible[i])]
  /\ conPc' = [conPc EXCEPT ![i] = "query"]
  /\ UNCHANGED <<conTelemetry, conVisible, conOut, conFails, conResult>>
  /\ UNCHANGED <<selVars, fldVars, layVars, pipeVars, resVars>>

\* Variant of ConQuery that waits while another instance holds the telemetry
ConQuery_locked(i) ==
  /\ conPc[i] = "query"
  /\ \A j \in Instances \ {i} : conPc[j] # "scan"
  /\ \E fails \in BOOLEAN :
       /\ conFails' = [conFails EXCEPT ![i] = fails]
       /\ IF fails
          THEN /\ conResult' = [conResult EXCEPT ![i] = smi_failure]
               /\ conPc' = [conPc EXCEPT ![i] = "done"]
               /\ UNCHANGED conOut
          ELSE /\ conOut' = [conOut EXCEPT ![i] = conTelemetry]
               /\ conPc' = [conPc EXCEPT ![i] = "scan"]
               /\ UNCHANGED conResult
  /\ UNCHANGED <<conTelemetry, conVisible, conAllowed>>
  /\ UNCHANGED <<selVars, fldVars, layVars, pipeVars, resVars>>

\* lines 83-94: instance i asks nvidia-smi; a failing call returns 0
ConQuery(i) ==
  /\ conPc[i] = "query"
  /\ \E fails \in BOOLEAN :
       /\ conFails' = [conFails EXCEPT ![i] = fails]
       /\ IF fails
          THEN /\ conResult' = [conResult EXCEPT ![i] = smi_failure]
               /\ conPc' = [conPc EXCEPT ![i] = "done"]
               /\ UNCHANGED conOut
          ELSE /\ conOut' = [conOut EXCEPT ![i] = conTelemetry]
               /\ conPc' = [conPc EXCEPT ![i] = "scan"]
               /\ UNCHANGED conResult
  /\ UNCHANGED <<conTelemetry, conVisible, conAllowed>>
  /\ UNCHANGED <<selVars, fldVars, layVars, pipeVars, resVars>>

\* lines 96-128: instance i scans its output and returns
ConScan(i) ==
  /\ conPc[i] = "scan"
  /\ LET best == scan_lines(conOut[i], conAllowed[i], 1, NoBest) IN
       conResult' = [conResult EXCEPT ![i] =
                       IF ~best.has THEN [ret |-> 0, warned |-> TRUE, raised |-> FALSE]
                       ELSE [ret |-> best.idx, warned |-> conAllowed[i].warned,
                             raised |-> FALSE]]
  /\ conPc' = [conPc EXCEPT ![i] = "done"]
  /\ UNCHANGED <<conTelemetry, conVisible, conAllowed, conOut, conFails>>
  /\ UNCHANGED <<selVars, fldVars, layVars, pipeVars, resVars>>

ConStep(i) == ConReadEnv(i) \/ ConQuery(i) \/ ConScan(i)

ConNext == \E i \in Instances : ConStep(i)

SpecConcurrent == ConInit /\ [][ConNext]_vars

(***************************************************************************)
(* The pipeline: initial states                                            *)
(***************************************************************************)

PipeInit ==
  /\ SelIdle
  /\ ResIdle
  /\ ConIdle
  /\ FldIdle
  /\ LayIdle
  /\ entry \in {"ej", "auto", "run"}
  /\ cli \in CliArgs
  /\ envUnset \in SUBSET EnvVars
  /\ \E files \in SUBSET {RawCifOf(cli), DestCifOf} :
       fs = UNION {with_parents(f) : f \in files}
  /\ fsAtTool = {}
  /\ extChanges = 0
  /\ runPc = (IF entry = "run" THEN "import" ELSE "off")
  /\ runArgs = (IF entry = "run" THEN run_parse_args(cli) ELSE NoArgs)
  /\ runExit = NotExited
  /\ runWhy = ""
  /\ runMapPath = <<>>
  /\ runRow = NoRow
  /\ toolRuns = 0
  /\ toolCmd = NoToolCmd
  /\ toolRc = NotExited
  /\ toolWrote = FALSE
  /\ autoPc = (IF entry = "auto" THEN "import" ELSE "off")
  /\ autoArgs = (IF entry = "auto" THEN cli ELSE NoArgs)
  /\ autoGpu = NoGpu
  /\ autoExit = NotExited
  /\ autoWhy = ""
  /\ autoKind = "none"
  /\ autoLog = <<>>
  /\ smiCalls = 0
  /\ copies = 0
  /\ jobLog = <<>>
  /\ ejPc = (IF entry = "ej" THEN "import" ELSE "off")
  /\ ejArgs = (IF entry = "ej" THEN cli ELSE NoArgs)
  /\ ejExit = NotExited
  /\ ejWhy = ""
  /\ ejLog = <<>>
  /\ ejStatus = "none"
  /\ ejKind = "none"
  /\ ejSawFs = {}
  /\ ejCaptured = NotCaptured

otherVars == <<selVars, fldVars, layVars, envVars, extraVars>>

(***************************************************************************)
(* run_cryoatom.py                                                         *)
(***************************************************************************)

RunAt(pc) == runPc = pc /\ runExit = NotExited

RunGoto(pc) == runPc' = pc /\ runExit' = runExit /\ runWhy' = runWhy

\* sys.exit(code), or an exception that ends the process with code
RunDie(code, why) == runPc' = runPc /\ runExit' = exit_status(code) /\ runWhy' = why

\* lines 49-55: the CS dict is built when the module is loaded; a missing
\* variable raises outside every handler
RunImport ==
  /\ RunAt("import")
  /\ IF import_fails(envUnset) THEN RunDie(1, "env") ELSE RunGoto("connect")
  /\ UNCHANGED <<runArgs, runMapPath, runRow, toolRuns, toolCmd, toolRc, toolWrote>>
  /\ UNCHANGED <<otherVars, fsVars, autoVars, ejVars>>

\* lines 144-150
RunConnect ==
  /\ RunAt("connect")
  /\ \E connected \in BOOLEAN :
       IF connected THEN RunGoto("project") ELSE RunDie(1, "connect")
  /\ UNCHANGED <<runArgs, runMapPath, runRow, toolRuns, toolCmd, toolRc, toolWrote>>
  /\ UNCHANGED <<otherVars, fsVars, autoVars, ejVars>>

\* lines 153-156
RunFindProject ==
  /\ RunAt("project")
  /\ \E found \in BOOLEAN :
       IF found THEN RunGoto("job") ELSE RunDie(1, "project")
  /\ UNCHANGED <<runArgs, runMapPath, runRow, toolRuns, toolCmd, toolRc, toolWrote>>
  /\ UNCHANGED <<otherVars, fsVars, autoVars, ejVars>>

\* lines 158-163
RunFindJob ==
  /\ RunAt("job")
  /\ \E found \in BOOLEAN :
       IF found THEN RunGoto("load") ELSE RunDie(1, "job")
  /\ UNCHANGED <<runArgs, runMapPath, runRow, toolRuns, toolCmd, toolRc, toolWrote>>
  /\ UNCHANGED <<otherVars, fsVars, autoVars, ejVars>>

\* Variant of RunLoadOutput whose range check has no lower bound, so that a
\* negative index counts rows from the end
RunLoadOutput_negative_from_end ==
  /\ RunAt("load")
  /\ \E loaded \in BOOLEAN, rows \in 0..MaxRows, rowIndex \in RowIndexArgs :
       IF ~loaded THEN RunDie(1, "load") /\ UNCHANGED runRow
       ELSE IF rows = 0 THEN RunDie(1, "empty") /\ UNCHANGED runRow
       ELSE /\ runRow' = [rows |-> rows, idx |-> rowIndex]
            /\ IF ~((0 - rows) <= rowIndex /\ rowIndex < rows) THEN RunDie(1, "row_index")
               ELSE RunGoto("row")
  /\ UNCHANGED <<runArgs, runMapPath, toolRuns, toolCmd, toolRc, toolWrote>>
  /\ UNCHANGED <<otherVars, fsVars, autoVars, ejVars>>

\* lines 166-183: load the output, reject an empty dataset and a row index
\* out of range
RunLoadOutput ==
  /\ RunAt("load")
  /\ \E loaded \in BOOLEAN, rows \in 0..MaxRows, rowIndex \in RowIndexArgs :
       IF ~loaded THEN RunDie(1, "load") /\ UNCHANGED runRow
       ELSE IF rows = 0 THEN RunDie(1, "empty") /\ UNCHANGED runRow
       ELSE /\ runRow' = [rows |-> rows, idx |-> rowIndex]
            /\ IF ~(0 <= rowIndex /\ rowIndex < rows) THEN RunDie(1, "row_index")
               ELSE RunGoto("row")
  /\ UNCHANGED <<runArgs, runMapPath, toolRuns, toolCmd, toolRc, toolWrote>>
  /\ UNCHANGED <<otherVars, fsVars, autoVars, ejVars>>

\* lines 185-186: `row = ds[args.row_index]` is the last use of the index
\* and of the dataset, and only the row is kept
RunReadRow ==
  /\ RunAt("row")
  /\ runRow' = NoRow
  /\ RunGoto("field")
  /\ UNCHANGED <<runArgs, runMapPath, toolRuns, toolCmd, toolRc, toolWrote>>
  /\ UNCHANGED <<otherVars, fsVars, autoVars, ejVars>>

\* lines 189-196
RunChooseField ==
  /\ RunAt("field")
  /\ \E keys \in PipeRowKeys, explicit \in ExplicitValues :
       IF choose_map_field(keys, explicit).ok THEN RunGoto("resolve") ELSE RunDie(1, "field")
  /\ UNCHANGED <<runArgs, runMapPath, runRow, toolRuns, toolCmd, toolRc, toolWrote>>
  /\ UNCHANGED <<otherVars, fsVars, autoVars, ejVars>>

\* lines 199-215
RunResolveMap ==
  /\ RunAt("resolve")
  /\ \E raw \in MapRawPaths, links \in LinkTables, resolved \in BOOLEAN, exists \in BOOLEAN :
       IF ~resolved THEN RunDie(1, "resolve") /\ UNCHANGED runMapPath
       ELSE /\ runMapPath' = resolve_map_path(links, safe_dir(TheProject), raw)
            /\ IF exists THEN RunGoto("workdir") ELSE RunDie(1, "map_missing")
  /\ UNCHANGED <<runArgs, runRow, toolRuns, toolCmd, toolRc, toolWrote>>
  /\ UNCHANGED <<otherVars, fsVars, autoVars, ejVars>>

\* lines 218-224; a failing mkdir raises into the handler of line 301
RunMakeWorkDir ==
  /\ RunAt("workdir")
  /\ \E made \in BOOLEAN :
       IF made
       THEN /\ fs' = fs \cup with_parents(run_work_dir(runArgs.outDir, TheProject, TheJob))
            /\ RunGoto("fasta")
       ELSE /\ UNCHANGED fs
            /\ RunDie(1, "mkdir")
  /\ UNCHANGED <<runArgs, runMapPath, runRow, toolRuns, toolCmd, toolRc, toolWrote>>
  /\ UNCHANGED <<otherVars, fsAtTool, extChanges, autoVars, ejVars>>

\* Variant of RunStageFasta that reports a missing FASTA file and goes on
RunStageFasta_missing_not_fatal ==
  /\ RunAt("fasta")
  /\ \E exists \in BOOLEAN, copied \in BOOLEAN :
       IF ~exists
       THEN /\ runPc' = "map"
            /\ runExit' = runExit
            /\ runWhy' = "fasta_missing"
            /\ UNCHANGED fs
       ELSE IF ~copied THEN RunDie(1, "copy_fasta") /\ UNCHANGED fs
       ELSE /\ fs' = fs \cup {run_work_dir(runArgs.outDir, TheProject, TheJob)
                               \o <<Seg("input.fasta")>>}
            /\ RunGoto("map")
  /\ UNCHANGED <<runArgs, runMapPath, runRow, toolRuns, toolCmd, toolRc, toolWrote>>
  /\ UNCHANGED <<otherVars, fsAtTool, extChanges, autoVars, ejVars>>

\* lines 227-234
RunStageFasta ==
  /\ RunAt("fasta")
  /\ \E exists \in BOOLEAN, copied \in BOOLEAN :
       IF ~exists THEN RunDie(1, "fasta_missing") /\ UNCHANGED fs
       ELSE IF ~copied THEN RunDie(1, "copy_fasta") /\ UNCHANGED fs
       ELSE /\ fs' = fs \cup {run_work_dir(runArgs.outDir, TheProject, TheJob)
                               \o <<Seg("input.fasta")>>}
            /\ RunGoto("map")
  /\ UNCHANGED <<runArgs, runMapPath, runRow, toolRuns, toolCmd, toolRc, toolWrote>>
  /\ UNCHANGED <<otherVars, fsAtTool, extChanges, autoVars, ejVars>>

\* Variant of RunStageMap that copies the map whatever --no-copy-map says
RunStageMap_flag_ignored ==
  /\ RunAt("map")
  /\ LET workDir == run_work_dir(runArgs.outDir, TheProject, TheJob)
         mapCopy == workDir \o <<Seg("input_map.mrc")>>
         outDir == run_out_dir(workDir)
     IN  \E copied \in BOOLEAN, made \in BOOLEAN :
           IF ~copied
           THEN RunDie(1, "copy_map") /\ UNCHANGED <<fs, toolCmd>>
           ELSE IF ~made
           THEN /\ fs' = fs \cup {mapCopy}
                /\ RunDie(1, "mkdir_out")
                /\ UNCHANGED toolCmd
           ELSE /\ fs' = (fs \cup {mapCopy}) \cup with_parents(outDir)
                /\ toolCmd' = [s |-> workDir \o <<Seg("input.fasta")>>,
                               v |-> mapCopy,
                               o |-> outDir,
                               d |-> IF runArgs.gpu # NoGpu THEN runArgs.gpu ELSE NoGpu,
                               cwd |-> workDir]
                /\ RunGoto("tool")
  /\ UNCHANGED <<runArgs, runMapPath, runRow, toolRuns, toolRc, toolWrote>>
  /\ UNCHANGED <<otherVars, fsAtTool, extChanges, autoVars, ejVars>>

\* lines 236-262: stage the map, make the output directory, build the command
RunStageMap ==
  /\ RunAt("map")
  /\ LET workDir == run_work_dir(runArgs.outDir, TheProject, TheJob)
         mapCopy == workDir \o <<Seg("input_map.mrc")>>
         mapIn == IF runArgs.noCopyMap THEN runMapPath ELSE mapCopy
         outDir == run_out_dir(workDir)
     IN  \E copied \in BOOLEAN, made \in BOOLEAN :
           IF ~runArgs.noCopyMap /\ ~copied
           THEN RunDie(1, "copy_map") /\ UNCHANGED <<fs, toolCmd>>
           ELSE IF ~made
           THEN /\ fs' = (IF runArgs.noCopyMap THEN fs ELSE fs \cup {mapCopy})
                /\ RunDie(1, "mkdir_out")
                /\ UNCHANGED toolCmd
           ELSE /\ fs' = (IF runArgs.noCopyMap THEN fs ELSE fs \cup {mapCopy})
                            \cup with_parents(outDir)
                /\ toolCmd' = [s |-> workDir \o <<Seg("input.fasta")>>,
                               v |-> mapIn,
                               o |-> outDir,
                               d |-> IF runArgs.gpu # NoGpu THEN runArgs.gpu ELSE NoGpu,
                               cwd |-> workDir]
                /\ RunGoto("tool")
  /\ UNCHANGED <<runArgs, runMapPath, runRow, toolRuns, toolRc, toolWrote>>
  /\ UNCHANGED <<otherVars, fsAtTool, extChanges, autoVars, ejVars>>

\* Variant of RunTool that runs the tool a second time when it fails
RunTool_retry_on_failure ==
  /\ RunAt("tool")
  /\ \E launched \in BOOLEAN, rc1 \in ToolExitCodes, rc \in ToolExitCodes, wrote \in BOOLEAN :
       IF ~launched
       THEN /\ RunDie(1, "tool_launch")
            /\ UNCHANGED <<toolRuns, toolRc, toolWrote, fs, fsAtTool>>
       ELSE /\ toolRuns' = (IF rc1 # 0 THEN toolRuns + 2 ELSE toolRuns + 1)
            /\ rc1 = 0 => rc = 0
            /\ toolRc' = rc
            /\ toolWrote' = wrote
            /\ fs' = (IF wrote THEN fs \cup {toolCmd.o \o <<Seg("out.cif")>>} ELSE fs)
            /\ fsAtTool' = fs'
            /\ IF rc # 0 THEN RunDie(rc, "tool")
               ELSE runPc' = "done" /\ runExit' = 0 /\ runWhy' = runWhy
  /\ UNCHANGED <<runArgs, runMapPath, runRow, toolCmd>>
  /\ UNCHANGED <<otherVars, extChanges, autoVars, ejVars>>

\* lines 265-304: run the tool and wait for it.  A tool that cannot be
\* started raises into the handler of line 301; a non-zero exit raises
\* CalledProcessError into the handler of line 293.
RunTool ==
  /\ RunAt("tool")
  /\ \E launched \in BOOLEAN, rc \in ToolExitCodes, wrote \in BOOLEAN :
       IF ~launched
       THEN /\ RunDie(1, "tool_launch")
            /\ UNCHANGED <<toolRuns, toolRc, toolWrote, fs, fsAtTool>>
       ELSE /\ toolRuns' = toolRuns + 1
            /\ toolRc' = rc
            /\ toolWrote' = wrote
            /\ fs' = (IF wrote THEN fs \cup {toolCmd.o \o <<Seg("out.cif")>>} ELSE fs)
            /\ fsAtTool' = fs'
            /\ IF rc # 0 THEN RunDie(rc, "tool")
               ELSE runPc' = "done" /\ runExit' = 0 /\ runWhy' = runWhy
  /\ UNCHANGED <<runArgs, runMapPath, runRow, toolCmd>>
  /\ UNCHANGED <<otherVars, extChanges, autoVars, ejVars>>

RunNext ==
  \/ RunImport
  \/ RunConnect
  \/ RunFindProject
  \/ RunFindJob
  \/ RunLoadOutput
  \/ RunReadRow
  \/ RunChooseField
  \/ RunResolveMap
  \/ RunMakeWorkDir
  \/ RunStageFasta
  \/ RunStageMap
  \/ RunTool

(***************************************************************************)
(* run_cryoatom_auto.py                                                    *)
(***************************************************************************)

AutoAt(pc) == autoPc = pc /\ autoExit = NotExited

AutoGoto(pc) == autoPc' = pc /\ autoExit' = autoExit /\ autoWhy' = autoWhy

AutoDie(code, why) == autoPc' = autoPc /\ autoExit' = exit_status(code) /\ autoWhy' = why

\* lines 44-50
AutoImport ==
  /\ AutoAt("import")
  /\ IF import_fails(envUnset) THEN AutoDie(1, "env") ELSE AutoGoto("gpu")
  /\ UNCHANGED <<autoArgs, autoGpu, autoKind, autoLog, smiCalls, copies, jobLog>>
  /\ UNCHANGED <<otherVars, fsVars, runVars, ejVars>>

\* lines 184-189
AutoSelectGpu ==
  /\ AutoAt("gpu")
  /\ IF autoArgs.gpu = NoGpu
     THEN \E visible \in VisibleValues, out \in PipeSmiOutputs, smiFails \in BOOLEAN :
            LET r == pick_free_gpu(visible, smiFails, out) IN
              /\ smiCalls' = smiCalls + 1
              /\ IF r.raised
                 THEN AutoDie(1, "gpu") /\ UNCHANGED <<autoGpu, autoLog>>
                 ELSE /\ autoGpu' = r.ret
                      /\ autoLog' = (IF r.warned THEN Append(autoLog, "warning: gpu")
                                     ELSE autoLog)
                      /\ AutoGoto("launch")
     ELSE /\ autoGpu' = autoArgs.gpu
          /\ AutoGoto("launch")
          /\ UNCHANGED <<smiCalls, autoLog>>
  /\ UNCHANGED <<autoArgs, autoKind, copies, jobLog>>
  /\ UNCHANGED <<otherVars, fsVars, runVars, ejVars>>

\* lines 192-224: start run_cryoatom.py and wait for it
AutoLaunch ==
  /\ AutoAt("launch")
  /\ runPc = "off"
  /\ \E scriptExists \in BOOLEAN :
       IF ~scriptExists
       THEN /\ AutoDie(1, "script_missing")
            /\ autoLog' = Append(autoLog, "error: no run_cryoatom.py")
            /\ UNCHANGED runVars
       ELSE /\ AutoGoto("wait")
            /\ runPc' = "import"
            /\ runArgs' = run_parse_args(auto_cmd(autoArgs, autoGpu))
            /\ UNCHANGED <<autoLog, runExit, runWhy, runMapPath, runRow, toolRuns, toolCmd,
                           toolRc, toolWrote>>
  /\ UNCHANGED <<autoArgs, autoGpu, autoKind, smiCalls, copies, jobLog>>
  /\ UNCHANGED <<otherVars, fsVars, ejVars>>

\* Variant of AutoChildExit in which the child's exit code is not checked
AutoChildExit_unchecked ==
  /\ AutoAt("wait")
  /\ runExit # NotExited
  /\ AutoGoto("connect")
  /\ UNCHANGED <<autoArgs, autoGpu, autoKind, autoLog, smiCalls, copies, jobLog>>
  /\ UNCHANGED <<otherVars, fsVars, runVars, ejVars>>

\* lines 223-227: check=True
AutoChildExit ==
  /\ AutoAt("wait")
  /\ runExit # NotExited
  /\ IF runExit # 0
     THEN /\ AutoDie(runExit, "run_failed")
          /\ autoLog' = Append(autoLog, "error: run_cryoatom.py failed")
     ELSE /\ AutoGoto("connect")
          /\ UNCHANGED autoLog
  /\ UNCHANGED <<autoArgs, autoGpu, autoKind, smiCalls, copies, jobLog>>
  /\ UNCHANGED <<otherVars, fsVars, runVars, ejVars>>

\* lines 230-234
AutoConnect ==
  /\ AutoAt("connect")
  /\ \E connected \in BOOLEAN :
       IF connected THEN AutoGoto("project") ELSE AutoDie(1, "connect")
  /\ UNCHANGED <<autoArgs, autoGpu, autoKind, autoLog, smiCalls, copies, jobLog>>
  /\ UNCHANGED <<otherVars, fsVars, runVars, ejVars>>

\* lines 236-239
AutoFindProject ==
  /\ AutoAt("project")
  /\ \E found \in BOOLEAN :
       IF found THEN AutoGoto("job") ELSE AutoDie(1, "project")
  /\ UNCHANGED <<autoArgs, autoGpu, autoKind, autoLog, smiCalls, copies, jobLog>>
  /\ UNCHANGED <<otherVars, fsVars, runVars, ejVars>>

\* lines 241-244
AutoFindJob ==
  /\ AutoAt("job")
  /\ \E found \in BOOLEAN :
       IF found THEN AutoGoto("resolve") ELSE AutoDie(1, "job")
  /\ UNCHANGED <<autoArgs, autoGpu, autoKind, autoLog, smiCalls, copies, jobLog>>
  /\ UNCHANGED <<otherVars, fsVars, runVars, ejVars>>

\* Variant of AutoResolve in which a missing out.cif is a warning and the
\* run ends successfully without publishing
AutoResolve_missing_not_fatal ==
  /\ AutoAt("resolve")
  /\ LET outCif == auto_out_cif(auto_work_dir(autoArgs.outDir, TheProject, TheJob)) IN
       IF outCif \notin fs
       THEN /\ autoKind' = "NotFound"
            /\ autoLog' = Append(autoLog, "warning: no out.cif")
            /\ autoPc' = "done"
            /\ autoExit' = 0
            /\ autoWhy' = autoWhy
       ELSE /\ autoKind' = "RawWorkingCopy"
            /\ AutoGoto("publish")
            /\ UNCHANGED autoLog
  /\ UNCHANGED <<autoArgs, autoGpu, smiCalls, copies, jobLog>>
  /\ UNCHANGED <<otherVars, fsVars, runVars, ejVars>>

\* lines 247-260
AutoResolve ==
  /\ AutoAt("resolve")
  /\ LET outCif == auto_out_cif(auto_work_dir(autoArgs.outDir, TheProject, TheJob)) IN
       IF outCif \notin fs
       THEN /\ autoKind' = "NotFound"
            /\ autoLog' = Append(autoLog, "error: no out.cif")
            /\ AutoDie(1, "no_out_cif")
       ELSE /\ autoKind' = "RawWorkingCopy"
            /\ AutoGoto("publish")
            /\ UNCHANGED autoLog
  /\ UNCHANGED <<autoArgs, autoGpu, smiCalls, copies, jobLog>>
  /\ UNCHANGED <<otherVars, fsVars, runVars, ejVars>>

\* Variant of AutoPublish in which a failing copy is caught and logged as a
\* warning
AutoPublish_copy_failure_warns ==
  /\ AutoAt("publish")
  /\ LET outCif == auto_out_cif(auto_work_dir(autoArgs.outDir, TheProject, TheJob))
         targetDir == safe_dir(TheJob) \o <<Seg("cryoatom")>>
         destFile == auto_dest_file(TheProject, TheJob)
     IN  \E made \in BOOLEAN, copied \in BOOLEAN :
           IF ~made
           THEN /\ AutoDie(1, "mkdir_target")
                /\ UNCHANGED <<fs, copies, autoLog>>
           ELSE /\ copies' = copies + 1
                /\ IF copied /\ outCif \in fs
                   THEN /\ fs' = fs \cup with_parents(targetDir) \cup {destFile}
                        /\ AutoGoto("log")
                        /\ UNCHANGED autoLog
                   ELSE /\ fs' = fs \cup with_parents(targetDir)
                        /\ autoLog' = Append(autoLog, "warning: copy")
                        /\ autoPc' = "log"
                        /\ autoExit' = autoExit
                        /\ autoWhy' = "copy"
  /\ UNCHANGED <<autoArgs, autoGpu, autoKind, smiCalls, jobLog>>
  /\ UNCHANGED <<otherVars, fsAtTool, extChanges, runVars, ejVars>>

\* lines 263-270: mkdir and copy2 are outside every handler, so a failure
\* of either ends the process with a traceback and exit code 1
AutoPublish ==
  /\ AutoAt("publish")
  /\ LET outCif == auto_out_cif(auto_work_dir(autoArgs.outDir, TheProject, TheJob))
         targetDir == safe_dir(TheJob) \o <<Seg("cryoatom")>>
         destFile == auto_dest_file(TheProject, TheJob)
     IN  \E made \in BOOLEAN, copied \in BOOLEAN :
           IF ~made
           THEN /\ AutoDie(1, "mkdir_target")
                /\ UNCHANGED <<fs, copies>>
           ELSE /\ copies' = copies + 1
                /\ IF copied /\ outCif \in fs
                   THEN /\ fs' = fs \cup with_parents(targetDir) \cup {destFile}
                        /\ AutoGoto("log")
                   ELSE /\ fs' = fs \cup with_parents(targetDir)
                        /\ AutoDie(1, "copy")
  /\ UNCHANGED <<autoArgs, autoGpu, autoKind, autoLog, smiCalls, jobLog>>
  /\ UNCHANGED <<otherVars, fsAtTool, extChanges, runVars, ejVars>>

\* Variant of AutoJobLog in which a failing job.log ends the run
AutoJobLog_fatal ==
  /\ AutoAt("log")
  /\ \E logged \in BOOLEAN :
       IF logged
       THEN /\ jobLog' = Append(jobLog, [gpu |-> autoGpu,
                                         path |-> auto_dest_file(TheProject, TheJob)])
            /\ autoPc' = "done"
            /\ autoExit' = 0
            /\ UNCHANGED <<autoLog, autoWhy>>
       ELSE /\ autoLog' = Append(autoLog, "warning: job log")
            /\ AutoDie(1, "job_log")
            /\ UNCHANGED jobLog
  /\ UNCHANGED <<autoArgs, autoGpu, autoKind, smiCalls, copies>>
  /\ UNCHANGED <<otherVars, fsVars, runVars, ejVars>>

\* lines 273-286
AutoJobLog ==
  /\ AutoAt("log")
  /\ \E logged \in BOOLEAN :
       IF logged
       THEN /\ jobLog' = Append(jobLog, [gpu |-> autoGpu,
                                         path |-> auto_dest_file(TheProject, TheJob)])
            /\ UNCHANGED autoLog
       ELSE /\ autoLog' = Append(autoLog, "warning: job log")
            /\ UNCHANGED jobLog
  /\ autoPc' = "done"
  /\ autoExit' = 0
  /\ UNCHANGED <<autoArgs, autoGpu, autoWhy, autoKind, smiCalls, copies>>
  /\ UNCHANGED <<otherVars, fsVars, runVars, ejVars>>

AutoNext ==
  \/ AutoImport
  \/ AutoSelectGpu
  \/ AutoLaunch
  \/ AutoChildExit
  \/ AutoConnect
  \/ AutoFindProject
  \/ AutoFindJob
  \/ AutoResolve
  \/ AutoPublish
  \/ AutoJobLog

(***************************************************************************)
(* cryoatom_external_job.py                                                *)
(***************************************************************************)

EjAt(pc) == ejPc = pc /\ ejExit = NotExited

EjGoto(pc) == ejPc' = pc /\ ejExit' = ejExit /\ ejWhy' = ejWhy

EjDie(code, why) == ejPc' = ejPc /\ ejExit' = exit_status(code) /\ ejWhy' = why

\* lines 56-62
EjImport ==
  /\ EjAt("import")
  /\ IF import_fails(envUnset) THEN EjDie(1, "env") ELSE EjGoto("connect")
  /\ UNCHANGED <<ejArgs, ejLog, ejStatus, ejKind, ejSawFs, ejCaptured>>
  /\ UNCHANGED <<otherVars, fsVars, runVars, autoVars>>

\* lines 134-139
EjConnect ==
  /\ EjAt("connect")
  /\ \E connected \in BOOLEAN :
       IF connected THEN EjGoto("project") ELSE EjDie(1, "connect")
  /\ UNCHANGED <<ejArgs, ejLog, ejStatus, ejKind, ejSawFs, ejCaptured>>
  /\ UNCHANGED <<otherVars, fsVars, runVars, autoVars>>

\* lines 141-152
EjFindProject ==
  /\ EjAt("project")
  /\ \E found \in BOOLEAN :
       IF found THEN EjGoto("job") ELSE EjDie(1, "project")
  /\ UNCHANGED <<ejArgs, ejLog, ejStatus, ejKind, ejSawFs, ejCaptured>>
  /\ UNCHANGED <<otherVars, fsVars, runVars, autoVars>>

\* lines 155-163
EjFindJob ==
  /\ EjAt("job")
  /\ \E found \in BOOLEAN :
       IF found THEN EjGoto("create") ELSE EjDie(1, "job")
  /\ UNCHANGED <<ejArgs, ejLog, ejStatus, ejKind, ejSawFs, ejCaptured>>
  /\ UNCHANGED <<otherVars, fsVars, runVars, autoVars>>

\* lines 168-178
EjCreate ==
  /\ EjAt("create")
  /\ \E created \in BOOLEAN :
       IF created
       THEN EjGoto("launch") /\ ejStatus' = "building"
       ELSE EjDie(1, "create") /\ UNCHANGED ejStatus
  /\ UNCHANGED <<ejArgs, ejLog, ejKind, ejSawFs, ejCaptured>>
  /\ UNCHANGED <<otherVars, fsVars, runVars, autoVars>>

\* lines 183-232: enter ej.run(), log, start run_cryoatom_auto.py and wait
EjLaunch ==
  /\ EjAt("launch")
  /\ autoPc = "off"
  /\ \E scriptExists \in BOOLEAN :
       IF ~scriptExists
       THEN /\ EjDie(1, "script_missing")
            /\ UNCHANGED <<ejLog, ejStatus, autoVars>>
       ELSE /\ EjGoto("wait")
            /\ ejStatus' = "running"
            /\ ejLog' = ejLog \o <<LogEntry("INFO", "start"), LogEntry("INFO", "command")>>
            /\ autoPc' = "import"
            /\ autoArgs' = ej_cmd(ejArgs)
            /\ UNCHANGED <<autoGpu, autoExit, autoWhy, autoKind, autoLog, smiCalls,
                           copies, jobLog>>
  /\ UNCHANGED <<ejArgs, ejKind, ejSawFs, ejCaptured>>
  /\ UNCHANGED <<otherVars, fsVars, runVars>>

\* Variant of EjChildExit whose handler logs the failure and does not re-raise
EjChildExit_swallows ==
  /\ EjAt("wait")
  /\ autoExit # NotExited
  /\ \E out \in StdoutTexts, err \in StderrTexts :
       /\ ejCaptured' = [done |-> TRUE, out |-> out, err |-> err]
       /\ IF autoExit # 0
          THEN /\ ejLog' = ejLog
                    \o <<LogEntry("ERROR", "exit code")>>
                    \o (IF out # <<>>
                        THEN <<LogEntry("ERROR", "--- stdout ---")>> \o log_lines("ERROR", out)
                        ELSE <<>>)
                    \o (IF err # <<>>
                        THEN <<LogEntry("ERROR", "--- stderr ---")>> \o log_lines("ERROR", err)
                        ELSE <<>>)
               /\ UNCHANGED ejStatus
               /\ EjGoto("resolve")
          ELSE /\ ejLog' = ejLog
                    \o (IF out # <<>>
                        THEN <<LogEntry("INFO", "--- stdout ---")>> \o log_lines("INFO", out)
                        ELSE <<>>)
                    \o (IF strip_truthy(err)
                        THEN <<LogEntry("INFO", "--- stderr ---")>> \o log_lines("INFO", err)
                        ELSE <<>>)
                    \o <<LogEntry("INFO", "child succeeded")>>
               /\ UNCHANGED ejStatus
               /\ EjGoto("resolve")
  /\ UNCHANGED <<ejArgs, ejKind, ejSawFs>>
  /\ UNCHANGED <<otherVars, fsVars, runVars, autoVars>>

\* lines 225-255 and 317-319: the child has ended.  On a non-zero exit the
\* captured output is logged and CalledProcessError re-raised: it leaves
\* ej.run() and reaches `except Exception`, which exits with 1.
EjChildExit ==
  /\ EjAt("wait")
  /\ autoExit # NotExited
  /\ \E out \in StdoutTexts, err \in StderrTexts :
       /\ ejCaptured' = [done |-> TRUE, out |-> out, err |-> err]
       /\ IF autoExit # 0
          THEN /\ ejLog' = ejLog
                    \o <<LogEntry("ERROR", "exit code")>>
                    \o (IF out # <<>>
                        THEN <<LogEntry("ERROR", "--- stdout ---")>> \o log_lines("ERROR", out)
                        ELSE <<>>)
                    \o (IF err # <<>>
                        THEN <<LogEntry("ERROR", "--- stderr ---")>> \o log_lines("ERROR", err)
                        ELSE <<>>)
               /\ ejStatus' = "failed"
               /\ EjDie(1, "child_failed")
          ELSE /\ ejLog' = ejLog
                    \o (IF out # <<>>
                        THEN <<LogEntry("INFO", "--- stdout ---")>> \o log_lines("INFO", out)
                        ELSE <<>>)
                    \o (IF strip_truthy(err)
                        THEN <<LogEntry("INFO", "--- stderr ---")>> \o log_lines("INFO", err)
                        ELSE <<>>)
                    \o <<LogEntry("INFO", "child succeeded")>>
               /\ UNCHANGED ejStatus
               /\ EjGoto("resolve")
  /\ UNCHANGED <<ejArgs, ejKind, ejSawFs>>
  /\ UNCHANGED <<otherVars, fsVars, runVars, autoVars>>

\* Variant of EjResolve that looks for the raw out.cif first
EjResolve_raw_first ==
  /\ EjAt("resolve")
  /\ ejSawFs' = fs
  /\ LET outCif == ej_out_cif(ej_work_dir(ejArgs.outDir, TheProject, TheJob))
         destFile == ej_dest_file(TheProject, TheJob)
     IN  IF outCif \in fs
         THEN /\ ejKind' = "RawWorkingCopy"
              /\ ejLog' = ejLog \o <<LogEntry("INFO", "use out.cif"),
                                     LogEntry("INFO", "mounted"), LogEntry("INFO", "done")>>
         ELSE IF destFile \in fs
         THEN /\ ejKind' = "PublishedCopy"
              /\ ejLog' = ejLog \o <<LogEntry("INFO", "use published copy"),
                                     LogEntry("INFO", "mounted"), LogEntry("INFO", "done")>>
         ELSE /\ ejKind' = "NotFound"
              /\ ejLog' = ejLog \o <<LogEntry("WARN", "no model file"),
                                     LogEntry("INFO", "end without output")>>
  /\ ejStatus' = "completed"
  /\ ejPc' = "done"
  /\ ejExit' = 0
  /\ UNCHANGED <<ejArgs, ejWhy, ejCaptured>>
  /\ UNCHANGED <<otherVars, fsVars, runVars, autoVars>>

\* lines 258-321: look for the model file, published copy first; the
\* output dataset itself is commented out, only the log entries remain
EjResolve ==
  /\ EjAt("resolve")
  /\ ejSawFs' = fs
  /\ LET outCif == ej_out_cif(ej_work_dir(ejArgs.outDir, TheProject, TheJob))
         destFile == ej_dest_file(TheProject, TheJob)
     IN  IF destFile \in fs
         THEN /\ ejKind' = "PublishedCopy"
              /\ ejLog' = ejLog \o <<LogEntry("INFO", "use published copy"),
                                     LogEntry("INFO", "mounted"), LogEntry("INFO", "done")>>
         ELSE IF outCif \in fs
         THEN /\ ejKind' = "RawWorkingCopy"
              /\ ejLog' = ejLog \o <<LogEntry("INFO", "use out.cif"),
                                     LogEntry("INFO", "mounted"), LogEntry("INFO", "done")>>
         ELSE /\ ejKind' = "NotFound"
              /\ ejLog' = ejLog \o <<LogEntry("WARN", "no model file"),
                                     LogEntry("INFO", "end without output")>>
  /\ ejStatus' = "completed"
  /\ ejPc' = "done"
  /\ ejExit' = 0
  /\ UNCHANGED <<ejArgs, ejWhy, ejCaptured>>
  /\ UNCHANGED <<otherVars, fsVars, runVars, autoVars>>

EjNext ==
  \/ EjImport
  \/ EjConnect
  \/ EjFindProject
  \/ EjFindJob
  \/ EjCreate
  \/ EjLaunch
  \/ EjChildExit
  \/ EjResolve

(***************************************************************************)
(* The file system outside the pipeline                                    *)
(***************************************************************************)

RootExit ==
  IF entry = "ej" THEN ejExit ELSE IF entry = "auto" THEN autoExit ELSE runExit

\* Someone else creates or removes model files while the pipeline runs
ExternalChange ==
  /\ entry # "none"
  /\ RootExit = NotExited
  /\ extChanges < MaxExtChanges
  /\ extChanges' = extChanges + 1
  /\ \E present \in SUBSET {RawCifOf(cli), DestCifOf} :
       /\ fs' = (fs \ {RawCifOf(cli), DestCifOf})
                \cup UNION {with_parents(f) : f \in present}
       /\ fs' # fs
  /\ UNCHANGED <<fsAtTool, otherVars, runVars, autoVars, ejVars>>

Next == RunNext \/ AutoNext \/ EjNext \/ ExternalChange

Spec == PipeInit /\ [][Next]_vars

(***************************************************************************)
(* Properties of the accelerator selection                                 *)
(***************************************************************************)

\* The allow-list as the caller supplies it: CUDA_VISIBLE_DEVICES is set,
\* non-empty and every digit token converts with int(); its members are the
\* digit tokens.  (A value on which int() raises is no allow-list: lines
\* 75-79 drop the restriction with a warning.)
AllowListSupplied ==
  /\ selVisible.present
  /\ selVisible.toks # <<>>
  /\ \A i \in 1..Len(selVisible.toks) : selVisible.toks[i].kind # "supdigit"

AllowList ==
  {t.val : t \in {selVisible.toks[i] : i \in 1..Len(selVisible.toks)} \cap
                 [kind : {"digits"}, val : GpuIds]}

\* A reported accelerator: a line with four numeric fields
Reported(i) == selOut[i].nparts >= 4 /\ selOut[i].numeric

\* The candidates that survive the allow-list filter
Survivors ==
  {i \in 1..Len(selOut) : Reported(i) /\ (AllowListSupplied => selOut[i].idx \in AllowList)}

\* memoryUsed / max(memoryTotal, 1) of line i is strictly below that of line j
RatioBelow(i, j) ==
  selOut[i].used * MaxOf(selOut[j].total, 1) < selOut[j].used * MaxOf(selOut[i].total, 1)

RatioEqual(i, j) == ~RatioBelow(i, j) /\ ~RatioBelow(j, i)

\* line i is strictly better than line j in (memory ratio, utilization) order
StrictlyBetter(i, j) ==
  RatioBelow(i, j) \/ (RatioEqual(i, j) /\ selOut[i].util < selOut[j].util)

\* the first-listed of the minimal candidates
FirstMinimal ==
  CHOOSE i \in Survivors :
    /\ \A j \in Survivors : ~StrictlyBetter(j, i)
    /\ \A j \in Survivors : j < i => StrictlyBetter(i, j)

\* C6: with at least one surviving candidate pick_free_gpu returns the index
\* of the candidate that is minimal in lexicographic (memory ratio,
\* utilization) order: a strictly lower ratio wins whatever the utilization,
\* equal ratios are decided by the lower utilization, and of fully tied
\* candidates the first listed wins.
THM_C6_LexMinFirstWins ==
  (selDone /\ ~selFails /\ Survivors # {}) =>
    /\ selResult.ret = selOut[FirstMinimal].idx
    /\ \A i \in Survivors :
         (\A j \in Survivors \ {i} : RatioBelow(i, j)) => selResult.ret = selOut[i].idx
    /\ \A i \in Survivors :
         (\A j \in Survivors \ {i} : RatioEqual(i, j) /\ selOut[i].util < selOut[j].util)
           => selResult.ret = selOut[i].idx
    /\ \A i \in Survivors :
         (\A j \in Survivors \ {i} :
            RatioEqual(i, j) /\ selOut[i].util = selOut[j].util /\ i < j)
           => selResult.ret = selOut[i].idx

\* a later-listed accelerator with the lower memory ratio but the higher
\* utilization was selected
WIT_C6_LowerRatioHigherUtil ==
  /\ selDone /\ ~selFails
  /\ \E i, j \in Survivors :
       /\ i < j
       /\ RatioBelow(j, i)
       /\ selOut[j].util > selOut[i].util
       /\ selOut[i].idx # selOut[j].idx
       /\ selResult.ret = selOut[j].idx

\* C7: pick_free_gpu never raises; when the telemetry query fails or no
\* candidate survives (malformed output, or an allow-list that excludes every
\* reporting accelerator) it returns 0 and logs a warning.
THM_C7_FallbackZero ==
  selDone =>
    /\ ~selResult.raised
    /\ (selFails \/ Survivors = {}) => (selResult.ret = 0 /\ selResult.warned)

\* the allow-list excludes every reporting accelerator, and accelerator 1
\* reports
WIT_C7_AllowListExcludesAll ==
  /\ selDone /\ ~selFails
  /\ AllowListSupplied
  /\ \E i \in 1..Len(selOut) : Reported(i) /\ selOut[i].idx = 1
  /\ Survivors = {}
  /\ selResult.ret = 0 /\ selResult.warned

ExplicitGiven == ~fldExplicit.none /\ fldExplicit.name # EmptyName

KeySet == {fldKeys[i] : i \in 1..Len(fldKeys)}

PreferredPresent == {p \in 1..Len(preferred) : preferred[p] \in KeySet}

PathPositions ==
  {i \in 1..Len(fldKeys) : Len(fldKeys[i]) >= 2 /\ fldKeys[i][Len(fldKeys[i])] = "path"}

Least(S) == CHOOSE x \in S : \A y \in S : x <= y

\* C9: choose_map_field follows the decision order explicit field (fatal
\* when absent from the keys), then the first present key of the preference
\* list, then the first key in row order ending in "/path", else fatal.
THM_C9_FieldDecisionOrder ==
  fldDone =>
    IF ExplicitGiven
    THEN IF fldExplicit.name \in KeySet
         THEN fldResult.ok /\ fldResult.field = fldExplicit.name
         ELSE ~fldResult.ok
    ELSE IF PreferredPresent # {}
         THEN fldResult.ok /\ fldResult.field = preferred[Least(PreferredPresent)]
    ELSE IF PathPositions # {}
         THEN fldResult.ok /\ fldResult.field = fldKeys[Least(PathPositions)]
    ELSE ~fldResult.ok

\* without an explicit field, a preferred key is returned although another
\* "/path" key comes first in the row
WIT_C9_PreferredBeatsEarlierPathKey ==
  /\ fldDone
  /\ ~ExplicitGiven
  /\ Len(fldKeys) >= 2
  /\ fldKeys[1] = <<"other", "path">>
  /\ fldKeys[2] = <<"map", "path">>
  /\ fldResult.ok
  /\ fldResult.field = <<"map", "path">>

(***************************************************************************)
(* Properties of the working directory layout                              *)
(***************************************************************************)

\* An override directory is supplied: a non-empty --out-dir
OverrideSupplied == ~layOutDir.none /\ layOutDir.str # <<>>

\* The override as a location: its components other than "."
OverrideLocation ==
  LET keep == {i \in 1..Len(layOutDir.str) : layOutDir.str[i] # <<".">>}
      nth(k) == CHOOSE i \in keep : Cardinality({j \in keep : j < i}) = k - 1
  IN  [k \in 1..Cardinality(keep) |-> layOutDir.str[nth(k)]]

\* The root as the naming scheme gives it
SchemeRoot ==
  IF OverrideSupplied THEN OverrideLocation
  ELSE Append(layProject.dir, <<"cryoatom", layProject.uid, layJob.uid>>)

SchemeResult == Append(Append(SchemeRoot, <<"out">>), <<"out.cif">>)

\* C10: the working directory root and the result path are the function
\* "override if supplied, else projectDir/cryoatom_<projectId>_<jobId>" (and
\* root/out/out.cif) of the inputs, and the three scripts obtain the same
\* paths from the same inputs.
THM_C10_SameLayout ==
  /\ \A l \in {layRun, layAuto, layEj} :
       l.done => (l.work = SchemeRoot /\ l.cif = SchemeResult)
  /\ (layRun.done /\ layAuto.done) => (layRun.work = layAuto.work /\ layRun.cif = layAuto.cif)
  /\ (layAuto.done /\ layEj.done) => (layAuto.work = layEj.work /\ layAuto.cif = layEj.cif)

\* all three scripts have derived the default root of project P2, job J1
WIT_C10_AllThreeDefaultRoot ==
  /\ layRun.done /\ layAuto.done /\ layEj.done
  /\ ~OverrideSupplied
  /\ layProject.uid = "P2" /\ layJob.uid = "J1"
  /\ layEj.cif = layRun.cif
  /\ Len(layEj.work) = 3

(***************************************************************************)
(* Properties of the pipeline                                              *)
(***************************************************************************)

\* <job_dir>/cryoatom/<projectId>_<jobId>_cryoatom.cif
PublishedCopyPath ==
  Append(Append(TheJob.dir, <<"cryoatom">>), <<TheProject.uid, TheJob.uid, "cryoatom.cif">>)

\* <work_dir>/out/out.cif, for the root given by --out-dir or the naming scheme
RawWorkingPath ==
  LET root == IF ~cli.outDir.none /\ cli.outDir.str # <<>> THEN cli.outDir.str
              ELSE Append(TheProject.dir, <<"cryoatom", TheProject.uid, TheJob.uid>>)
  IN  Append(Append(root, <<"out">>), <<"out.cif">>)

\* The modeling tool has exited non-zero
ToolFailed == toolRc # NotExited /\ toolRc # 0

Exited(code) == code # NotExited

LogHas(log, tag, text) == \E i \in 1..Len(log) : log[i] = [tag |-> tag, text |-> text]

\* C1: once the tool has exited non-zero, run_cryoatom.py has not succeeded,
\* run_cryoatom_auto.main never resolves the artifact, never copies into
\* <job_dir>/cryoatom and never appends to the job log, and the External
\* Job wrapper never reaches its artifact resolution.
THM_C1_ToolFailureAborts ==
  ToolFailed =>
    /\ runExit # 0
    /\ autoPc \notin {"connect", "project", "job", "resolve", "publish", "log", "done"}
    /\ autoKind = "none"
    /\ copies = 0
    /\ jobLog = <<>>
    /\ ejPc \notin {"resolve", "done"}
    /\ ejKind = "none"

\* the External Job wrapper has ended after the tool exited 137, with an
\* out.cif lying in the working directory
WIT_C1_WrapperEndedAfterToolFailure ==
  /\ entry = "ej"
  /\ toolRc = 137
  /\ Exited(ejExit)
  /\ RawWorkingPath \in fs
  /\ copies = 0

\* C2: a non-zero exit code c of the tool is the exit code of each of the
\* three scripts, every other fatal error gives 1, and success gives 0.
CEX_C2_ExitCodeMirrored ==
  /\ Exited(runExit) =>
       runExit = (IF ToolFailed THEN toolRc ELSE IF runWhy # "" THEN 1 ELSE 0)
  /\ Exited(autoExit) =>
       autoExit = (IF ToolFailed THEN toolRc ELSE IF autoWhy # "" THEN 1 ELSE 0)
  /\ Exited(ejExit) =>
       ejExit = (IF ToolFailed THEN toolRc ELSE IF ejWhy # "" THEN 1 ELSE 0)

\* C3: when the tool exited 0 and the orchestration, looking for the
\* artifact, finds neither the published copy nor the raw out.cif, it logs a
\* warning, publishes nothing and ends successfully with exit code 0.
CEX_C3_EmptyResultIsSuccess ==
  (/\ toolRc = 0
   /\ extChanges = 0
   /\ PublishedCopyPath \notin fs
   /\ RawWorkingPath \notin fs
   /\ autoKind # "none")
  => /\ autoExit = 0
     /\ autoPc = "done"
     /\ copies = 0
     /\ \E i \in 1..Len(autoLog) : autoLog[i] = "warning: no out.cif"
     /\ Exited(ejExit) => ejExit = 0

THM_C5_ResolutionOrder ==
  ejKind # "none" =>
    LET published == PublishedCopyPath \in ejSawFs
        raw == RawWorkingPath \in ejSawFs
    IN  /\ ejKind = "PublishedCopy" <=> published
        /\ ejKind = "RawWorkingCopy" <=> (~published /\ raw)
        /\ ejKind = "NotFound" <=> (~published /\ ~raw)
        /\ ejKind = "NotFound" =>
             /\ ejExit = 0
             /\ ejStatus = "completed"
             /\ LogHas(ejLog, "WARN", "no model file")
             /\ ~LogHas(ejLog, "INFO", "mounted")

\* the wrapper found neither file after a successful child and ended with 0
WIT_C5_NotFoundIsNotFatal ==
  /\ ejKind = "NotFound"
  /\ autoExit = 0
  /\ ejExit = 0
  /\ PublishedCopyPath \notin ejSawFs
  /\ RawWorkingPath \notin ejSawFs

\* <job_dir>/cryoatom
PublishDir == Append(TheJob.dir, <<"cryoatom">>)

AutoLogHas(text) == \E i \in 1..Len(autoLog) : autoLog[i] = text

\* C11: publishing creates <job_dir>/cryoatom, copies the artifact into it
\* and then appends one entry to the job log.  A failing append is a warning:
\* the run still ends with exit code 0 and (nobody else touching the files)
\* the copy in place.  A failing copy is fatal: non-zero exit and no entry
\* appended.
THM_C11_LogFailureWarnsCopyFailureFatal ==
  /\ Len(jobLog) <= 1
  /\ jobLog # <<>> =>
       /\ copies = 1
       /\ autoPc = "done"
       /\ jobLog[1].path = PublishedCopyPath
       /\ extChanges = 0 => (PublishDir \in fs /\ PublishedCopyPath \in fs)
  /\ AutoLogHas("warning: job log") =>
       /\ autoPc = "done"
       /\ autoExit = 0
       /\ copies = 1
       /\ jobLog = <<>>
       /\ extChanges = 0 => (PublishDir \in fs /\ PublishedCopyPath \in fs)
  /\ autoWhy = "copy" =>
       /\ Exited(autoExit)
       /\ autoExit # 0
       /\ jobLog = <<>>

\* the append to the job log failed after a fresh copy, and the run ended
\* with exit code 0 and the copy in place
WIT_C11_LogFailedCopyInPlace ==
  /\ AutoLogHas("warning: job log")
  /\ autoExit = 0
  /\ extChanges = 0
  /\ jobLog = <<>>
  /\ PublishedCopyPath \in fs
  /\ PublishedCopyPath \notin fsAtTool

\* C12 as stated: a failing copy into <job_dir>/cryoatom is logged as a
\* warning and the pipeline still ends successfully.
CEX_C12_CopyFailureIsWarning ==
  (autoWhy = "copy" /\ Exited(RootExit)) =>
    /\ autoPc = "done"
    /\ autoExit = 0
    /\ AutoLogHas("warning: copy")
    /\ RootExit = 0

\* C12 amended: a failing copy into <job_dir>/cryoatom is fatal, not a
\* warning: run_cryoatom_auto.py ends at once with exit code 1, records no
\* warning for it and appends nothing to the job log, and a wrapper around
\* it ends with exit code 1 without looking for the artifact.
THM_C12_CopyFailureIsFatal ==
  autoWhy = "copy" =>
    /\ autoPc = "publish"
    /\ autoExit = 1
    /\ copies = 1
    /\ ~AutoLogHas("warning: copy")
    /\ ~AutoLogHas("warning: job log")
    /\ jobLog = <<>>
    /\ ejKind = "none"
    /\ Exited(ejExit) => (ejExit = 1 /\ ejStatus = "failed")

\* the copy failed although the tool had written out.cif, and the wrapper
\* ended with exit code 1
WIT_C12_WrapperFailedAfterCopyFailure ==
  /\ entry = "ej"
  /\ autoWhy = "copy"
  /\ toolRc = 0
  /\ toolWrote
  /\ extChanges = 0
  /\ RawWorkingPath \in fs
  /\ PublishedCopyPath \notin fs
  /\ ejExit = 1

\* Position and cause of exit of the script the user started
RootPc == IF entry = "ej" THEN ejPc ELSE IF entry = "auto" THEN autoPc ELSE runPc

RootWhy == IF entry = "ej" THEN ejWhy ELSE IF entry = "auto" THEN autoWhy ELSE runWhy

\* No pipeline stage has run: no telemetry query, no working directory made,
\* no child process, no session connection, no External Job
NoStageRan ==
  /\ RootPc = "import"
  /\ smiCalls = 0
  /\ toolRuns = 0
  /\ copies = 0
  /\ jobLog = <<>>
  /\ ejStatus = "none"
  /\ ejLog = <<>>
  /\ entry # "run" => runPc = "off"
  /\ entry = "ej" => autoPc = "off"

\* C13 as stated: with any of host, port, email, password, license id
\* missing, the entry point fails before any pipeline stage runs.
CEX_C13_AnyMissingCredentialIsFatal ==
  envUnset # {} =>
    /\ NoStageRan
    /\ Exited(RootExit) => (RootExit = 1 /\ RootWhy = "env")

\* C13 amended: with email, password or license id missing, each entry
\* point fails with exit code 1 before any pipeline stage runs; a missing
\* host or port is not an error (the defaults are used) and never ends the
\* entry point with a configuration error.
THM_C13_MissingRequiredCredentialIsFatal ==
  /\ (envUnset \cap {"CS_EMAIL", "CS_PASSWORD", "CS_LICENSE_ID"} # {}) =>
       /\ NoStageRan
       /\ Exited(RootExit) => (RootExit = 1 /\ RootWhy = "env")
  /\ (envUnset \subseteq {"CS_HOST", "CS_BASE_PORT"}) =>
       /\ runWhy # "env" /\ autoWhy # "env" /\ ejWhy # "env"

\* the wrapper, started without a license id and with everything else set,
\* has ended with the configuration error
WIT_C13_WrapperWithoutLicense ==
  /\ entry = "ej"
  /\ envUnset = {"CS_LICENSE_ID"}
  /\ ejExit = 1
  /\ ejWhy = "env"
  /\ NoStageRan

\* run_cryoatom_auto.main is past its step 1
AutoPastGpuChoice == autoPc \notin {"off", "import", "gpu"}

\* C14: in a pipeline run by run_cryoatom_auto.py (started directly or by the
\* External Job wrapper) the selector runs exactly when the caller gave no
\* accelerator.  With an explicit index g, 0 included, telemetry is never
\* queried, every layer receives g and the tool is started with cuda:g; the
\* same holds of run_cryoatom.py started directly with g.
THM_C14_SelectorBypassedIffExplicit ==
  /\ smiCalls <= 1
  /\ (entry \in {"ej", "auto"} /\ AutoPastGpuChoice) => (smiCalls = 1 <=> cli.gpu = NoGpu)
  /\ ~AutoPastGpuChoice => smiCalls = 0
  /\ (cli.gpu # NoGpu) =>
       /\ smiCalls = 0
       /\ autoPc # "off" => autoArgs.gpu = cli.gpu
       /\ AutoPastGpuChoice => autoGpu = cli.gpu
       /\ runPc # "off" => runArgs.gpu = cli.gpu
       /\ toolCmd # NoToolCmd => toolCmd.d = cli.gpu
       /\ \A i \in 1..Len(jobLog) : jobLog[i].gpu = cli.gpu

\* the wrapper was started with --gpu 0 and the tool has run on cuda:0
\* without a telemetry query
WIT_C14_ExplicitZeroThroughWrapper ==
  /\ entry = "ej"
  /\ cli.gpu = 0
  /\ toolRuns = 1
  /\ toolCmd.d = 0
  /\ smiCalls = 0
  /\ ejExit = 0

\* <work_dir>, for the root given by --out-dir or the naming scheme
WorkRoot ==
  IF ~cli.outDir.none /\ cli.outDir.str # <<>> THEN cli.outDir.str
  ELSE Append(TheProject.dir, <<"cryoatom", TheProject.uid, TheJob.uid>>)

StagedFasta == Append(WorkRoot, <<"input.fasta">>)

StagedMap == Append(WorkRoot, <<"input_map.mrc">>)

\* C15: once staging is over, <work_dir>/input.fasta exists whatever the
\* no-copy flag says and is the tool's -s argument; without the flag
\* <work_dir>/input_map.mrc exists and is the -v argument, with the flag no
\* input_map.mrc is written and -v is the resolved original map path.
THM_C15_StagingAndNoCopyFlag ==
  /\ runPc \in {"map", "tool", "done"} => StagedFasta \in fs
  /\ runPc \in {"tool", "done"} =>
       /\ toolCmd.s = StagedFasta
       /\ IF cli.noCopyMap
          THEN toolCmd.v = runMapPath /\ StagedMap \notin fs
          ELSE toolCmd.v = StagedMap /\ StagedMap \in fs
  /\ cli.noCopyMap => StagedMap \notin fs

\* the tool has run with --no-copy-map: the FASTA copy is there, no map
\* copy is, and -v is the map in the job directory
WIT_C15_NoCopyMapUsesOriginal ==
  /\ cli.noCopyMap
  /\ toolRuns = 1
  /\ StagedFasta \in fs
  /\ StagedMap \notin fs
  /\ toolCmd.v = <<Seg("projects"), Seg("CS-a"), Seg("J1"), Seg("map.mrc")>>

\* Attempts to append to the job log: the entries and the failures
LogAppendAttempts ==
  Len(jobLog) + Cardinality({i \in 1..Len(autoLog) : autoLog[i] = "warning: job log"})

\* C16: in every execution the telemetry query, the modeling tool, the
\* publish copy and the job-log append are each attempted at most once, and
\* a script that starts a child waits for it: it stays at the call while the
\* child runs and goes on only after the child has exited.
THM_C16_NoRetryBlockingLaunch ==
  /\ smiCalls <= 1
  /\ toolRuns <= 1
  /\ copies <= 1
  /\ LogAppendAttempts <= 1
  /\ (entry # "run" /\ runPc # "off" /\ ~Exited(runExit)) => (autoPc = "wait" /\ ~Exited(autoExit))
  /\ (entry = "ej" /\ autoPc # "off" /\ ~Exited(autoExit)) => (ejPc = "wait" /\ ~Exited(ejExit))
  /\ (entry # "run" /\ autoPc \notin {"off", "import", "gpu", "launch", "wait"}) => runExit = 0
  /\ ejPc \in {"resolve", "done"} => autoExit = 0
  /\ toolRuns = 1 <=> toolRc # NotExited
  /\ Exited(runExit) /\ runWhy = "" => toolRuns = 1

\* a whole wrapper run has ended: one telemetry query, one tool run, one
\* copy, one job-log entry
WIT_C16_WholePipelineOnceEach ==
  /\ entry = "ej"
  /\ ejExit = 0
  /\ smiCalls = 1
  /\ toolRuns = 1
  /\ copies = 1
  /\ Len(jobLog) = 1

\* C17: when the resolved map file or the FASTA file does not exist,
\* run_cryoatom.py ends with exit code 1 and the modeling tool is never
\* started.
THM_C17_MissingInputIsFatal ==
  runWhy \in {"map_missing", "fasta_missing"} =>
    /\ runExit = 1
    /\ runPc \in {"resolve", "fasta"}
    /\ toolRuns = 0
    /\ toolRc = NotExited
    /\ toolCmd = NoToolCmd
    /\ StagedFasta \notin fs

\* run_cryoatom.py, started by run_cryoatom_auto.py, has ended on a missing
\* FASTA file after it found the map
WIT_C17_FastaMissingAfterMapFound ==
  /\ entry = "auto"
  /\ runWhy = "fasta_missing"
  /\ runExit = 1
  /\ runMapPath # <<>>
  /\ toolRuns = 0
  /\ autoExit = 1

\* The tag the forwarded lines carry
ForwardTag == IF autoExit # 0 THEN "ERROR" ELSE "INFO"

\* The position of the header entry of a forwarded stream, 0 when absent
HeaderAt(header) ==
  IF \E k \in 1..Len(ejLog) : ejLog[k] = [tag |-> ForwardTag, text |-> header]
  THEN CHOOSE k \in 1..Len(ejLog) : ejLog[k] = [tag |-> ForwardTag, text |-> header]
  ELSE 0

\* Every line of text is in the log, tagged, in order, right after header
LinesForwarded(header, text) ==
  text # <<>> =>
    /\ HeaderAt(header) # 0
    /\ HeaderAt(header) + Len(text) <= Len(ejLog)
    /\ \A i \in 1..Len(text) :
         ejLog[HeaderAt(header) + i] = [tag |-> ForwardTag, text |-> text[i]]

OnlyWhitespace(text) == \A i \in 1..Len(text) : text[i] = ""

StdoutBeforeStderr ==
  (HeaderAt("--- stdout ---") # 0 /\ HeaderAt("--- stderr ---") # 0) =>
    HeaderAt("--- stdout ---") + Len(ejCaptured.out) < HeaderAt("--- stderr ---")

\* On the failure path nothing follows the forwarded lines: the error
\* leaves the wrapper, which ends with exit code 1 and a failed External Job
ReRaisedAfterLogging ==
  autoExit # 0 =>
    /\ ejExit = 1
    /\ ejStatus = "failed"
    /\ ejKind = "none"
    /\ ejLog[Len(ejLog)].tag = "ERROR"

\* C18 as stated: once the child has ended, every line of its stdout and of
\* its stderr is in the External Job log, in order, tagged [ERROR] after a
\* non-zero exit and [INFO] otherwise, and a failure is re-raised after the
\* logging.
CEX_C18_EveryLineForwarded ==
  ejCaptured.done =>
    /\ LinesForwarded("--- stdout ---", ejCaptured.out)
    /\ LinesForwarded("--- stderr ---", ejCaptured.err)
    /\ StdoutBeforeStderr
    /\ ReRaisedAfterLogging

\* C18 amended: as stated, except that after a zero exit a captured stderr
\* that holds nothing but whitespace is not forwarded at all.
THM_C18_LinesForwardedUnlessBlankStderr ==
  ejCaptured.done =>
    /\ LinesForwarded("--- stdout ---", ejCaptured.out)
    /\ (autoExit # 0 \/ ~OnlyWhitespace(ejCaptured.err)) =>
         LinesForwarded("--- stderr ---", ejCaptured.err)
    /\ (autoExit = 0 /\ OnlyWhitespace(ejCaptured.err)) => HeaderAt("--- stderr ---") = 0
    /\ StdoutBeforeStderr
    /\ ReRaisedAfterLogging
    /\ autoExit = 0 => \A i \in 1..Len(ejLog) : ejLog[i].tag # "ERROR"

\* the child failed with two lines on stdout and one on stderr, all three
\* are in the log as [ERROR] and the wrapper has ended with exit code 1
WIT_C18_FailureOutputForwarded ==
  /\ ejCaptured.done
  /\ autoExit # 0
  /\ Len(ejCaptured.out) = 2
  /\ ejCaptured.err = <<"e1">>
  /\ LogHas(ejLog, "ERROR", "o1") /\ LogHas(ejLog, "ERROR", "o2") /\ LogHas(ejLog, "ERROR", "e1")
  /\ ejExit = 1

(***************************************************************************)
(* Properties of the map path resolution                                   *)
(***************************************************************************)

\* The raw path as a location before normalization: itself when absolute,
\* else under the base directory
Joined(base) == IF resRaw.abs THEN resRaw.comps ELSE base \o resRaw.comps

\* Lexical normalization, from the last component backward: "." is dropped
\* and ".." cancels the nearest component before it
RECURSIVE Normalized(_, _, _)
Normalized(path, i, skip) ==
  IF i = 0 THEN <<>>
  ELSE IF path[i] = <<".">> THEN Normalized(path, i - 1, skip)
  ELSE IF path[i] = <<"..">> THEN Normalized(path, i - 1, skip + 1)
  ELSE IF skip > 0 THEN Normalized(path, i - 1, skip - 1)
  ELSE Append(Normalized(path, i - 1, 0), path[i])

\* A path in normal form: no "." or ".." component and no symbolic link on it
InNormalForm(path) ==
  /\ \A i \in 1..Len(path) : path[i] \notin {<<".">>, <<"..">>}
  /\ \A l \in resLinks : \A k \in 1..Len(path) : SubSeq(path, 1, k) # l.from

\* No symbolic link lies on the way of a resolution
NoLinkCrossed == resLinks = {}

\* C19: an absolute raw path resolves to itself up to normalization whatever
\* the base directory, a relative one to the normalized projectDir/rawPath,
\* the result is in normal form, and resolving the result again gives the
\* result.
THM_C19_ResolutionIdempotent ==
  /\ resOut.done =>
       /\ InNormalForm(resOut.path)
       /\ NoLinkCrossed =>
            resOut.path = Normalized(Joined(resBase), Len(Joined(resBase)), 0)
       /\ InNormalForm(Joined(resBase)) => resOut.path = Joined(resBase)
  /\ (resOut.done /\ resOther.done /\ resRaw.abs) => resOut.path = resOther.path
  /\ (resOut.done /\ resOther.done /\ resBase = resOtherBase) => resOut.path = resOther.path
  /\ (resOut.done /\ resAgain.done) => resAgain.path = resOut.path

\* an absolute raw path with a ".." and a symbolic link on it was resolved
\* against two different base directories and its result resolved again
WIT_C19_AbsoluteWithLinkResolvedTwice ==
  /\ resOut.done /\ resOther.done /\ resAgain.done
  /\ resRaw.abs
  /\ resRaw.comps = <<Seg("J1"), Seg(".."), Seg("lnk")>>
  /\ resBase # resOtherBase
  /\ resOut.path = <<Seg("data")>>
  /\ resAgain.path = <<Seg("data")>>

(***************************************************************************)
(* Properties of two selections at the same time                           *)
(***************************************************************************)

BothReturned == \A i \in Instances : conPc[i] = "done"

\* Both instances selected against the same telemetry snapshot
SameSnapshot == \A i \in Instances : ~conFails[i] /\ conOut[i] = conTelemetry

\* An instance that has not returned can take its next step whatever the
\* other instance is doing
NeverBlocked == \A i \in Instances : conPc[i] # "done" => ENABLED ConStep(i)

\* What instance i returns is what a selection on its own returns
AsAlone(i) == conResult[i] = pick_free_gpu(conVisible[i], conFails[i], conTelemetry)

THM_C21_WrapperAlwaysFindsPublishedCopy ==
  /\ (autoExit = 0 /\ extChanges = 0) =>
       /\ copies = 1
       /\ PublishedCopyPath \in fs
  /\ (ejKind # "none" /\ extChanges = 0) =>
       /\ autoExit = 0
       /\ ejKind = "PublishedCopy"
       /\ LogHas(ejLog, "INFO", "use published copy")
       /\ ~LogHas(ejLog, "INFO", "use out.cif")
       /\ ~LogHas(ejLog, "WARN", "no model file")

\* the wrapper took the published copy, made in this run, while the raw
\* out.cif was there as well
WIT_C21_PublishedCopyTaken ==
  /\ entry = "ej"
  /\ extChanges = 0
  /\ ejKind = "PublishedCopy"
  /\ ejExit = 0
  /\ RawWorkingPath \in ejSawFs
  /\ PublishedCopyPath \in ejSawFs
  /\ PublishedCopyPath \notin fsAtTool

\* The lines of the output that are not well-formed: fewer than four
\* fields, or a field that is not a number
Malformed == {i \in 1..Len(selOut) : selOut[i].nparts < 4 \/ ~selOut[i].numeric}

\* The well-formed lines the allow-list lets through
WellFormedAllowed ==
  {i \in 1..Len(selOut) \ Malformed :
     AllowListSupplied => selOut[i].idx \in AllowList}

\* The best of a set of lines: no line of the set is strictly better, and
\* every earlier line of the set is strictly worse
BestOf(S) ==
  CHOOSE i \in S :
    /\ \A j \in S : ~StrictlyBetter(j, i)
    /\ \A j \in S : j < i => StrictlyBetter(i, j)

\* The warning of the allow-list parser is not raised
NoParseWarning ==
  \A i \in 1..Len(selVisible.toks) : selVisible.toks[i].kind # "supdigit"

\* C22: malformed telemetry lines are skipped one by one.  While a
\* well-formed allowed line remains, the selection is the best of those
\* lines, the same with and without the malformed ones, and no fallback
\* warning is logged; index 0 with the fallback warning is returned only
\* when none remains.
THM_C22_MalformedLinesSkipped ==
  (selDone /\ ~selFails) =>
    /\ WellFormedAllowed # {} =>
         /\ selResult.ret = selOut[BestOf(WellFormedAllowed)].idx
         /\ NoParseWarning => ~selResult.warned
    /\ WellFormedAllowed = {} => (selResult.ret = 0 /\ selResult.warned)
    /\ ~selResult.raised

\* a short line and then a well-formed line for accelerator 1: accelerator
\* 1 is returned without a warning
WIT_C22_ShortLineThenGoodLine ==
  /\ selDone /\ ~selFails
  /\ Len(selOut) = 2
  /\ selOut[1].nparts < 4
  /\ 2 \in WellFormedAllowed
  /\ selOut[2].idx = 1
  /\ selResult.ret = 1
  /\ ~selResult.warned

\* The input checks of run_cryoatom.py and the causes of exit they record
InputCheckPcs == {"connect", "project", "job", "load", "row", "field", "resolve"}

InputCheckFailures ==
  {"connect", "project", "job", "load", "empty", "row_index", "field", "map_missing"}

InputChecksPending == runPc \in InputCheckPcs /\ runExit = NotExited

FailedInputCheck == runExit # NotExited /\ runWhy \in InputCheckFailures

\* The row index is within 0 <= rowIndex < rows
RowInRange == 0 <= runRow.idx /\ runRow.idx < runRow.rows

\* What holds in every state: a failed input check means exit code 1, no
\* tool command built or run and no staged file; the row-index failure is
\* exactly the index out of 0 <= rowIndex < rows, and only an index within
\* that range gets as far as reading the row
InputCheckOutcome ==
  /\ FailedInputCheck =>
       /\ runExit = 1
       /\ runPc \in InputCheckPcs
       /\ toolRuns = 0
       /\ toolCmd = NoToolCmd
       /\ StagedFasta \notin fs
       /\ StagedMap \notin fs
  /\ (runExit # NotExited /\ runWhy = "row_index") => (runRow.rows > 0 /\ ~RowInRange)
  /\ RunAt("row") => RowInRange

\* What holds of every step: while an input check of run_cryoatom.py is
\* pending, a step of the pipeline leaves the filesystem as it is
InputCheckStep ==
  (InputChecksPending /\ extChanges' = extChanges) => fs' = fs

\* C23: run_cryoatom.py changes nothing in the filesystem until its input
\* checks have passed.  A failure of the connection, the project or job
\* lookup, the dataset load, the non-empty check, the row-index check
\* (negative indices included), the field choice or the map-file check
\* ends it with exit code 1 with no working directory made and no file
\* copied.
THM_C23_NoMutationBeforeInputChecksPass ==
  []InputCheckOutcome /\ [][InputCheckStep]_vars

\* row index -1 on a non-empty dataset: rejected with exit code 1, and the
\* working directory does not exist
WIT_C23_NegativeRowIndexRejected ==
  /\ runExit = 1
  /\ runWhy = "row_index"
  /\ runRow.idx < 0
  /\ runRow.rows > 0
  /\ extChanges = 0
  /\ WorkRoot \notin fs
  /\ fs = {}

\* In every state of a run of run_cryoatom_auto.py: once step 1 is over an
\* index is chosen, the caller's if the caller gave one; run_cryoatom.py
\* has it as --gpu, the tool as cuda:<index>, and the job-log entry names
\* it together with the published path
OneIndexEverywhere ==
  entry \in {"ej", "auto"} =>
    /\ AutoPastGpuChoice => autoGpu \in Nat
    /\ (AutoPastGpuChoice /\ autoArgs.gpu # NoGpu) => autoGpu = autoArgs.gpu
    /\ runPc # "off" => (AutoPastGpuChoice /\ runArgs.gpu = autoGpu)
    /\ toolCmd # NoToolCmd => toolCmd.d = autoGpu
    /\ Len(jobLog) <= 1
    /\ \A i \in 1..Len(jobLog) :
         /\ jobLog[i].gpu = autoGpu
         /\ jobLog[i].gpu = toolCmd.d
         /\ jobLog[i].path = PublishedCopyPath

\* In every step: an index once chosen is not chosen again
IndexFixedOnce == autoGpu # NoGpu => autoGpu' = autoGpu

\* C24: within one run of run_cryoatom_auto.py the accelerator index is
\* chosen once, by the selector or by the caller, and that one index is the
\* --gpu of run_cryoatom.py, the cuda:<index> of the tool and the index of
\* the destination job's log entry, which also names the published path.
THM_C24_OneIndexThroughout ==
  []OneIndexEverywhere /\ [][IndexFixedOnce]_vars

\* the selector chose accelerator 1, the tool ran on cuda:1 and the log
\* entry names accelerator 1 and the published copy
WIT_C24_SelectedIndexInToolAndLog ==
  /\ entry = "auto"
  /\ cli.gpu = NoGpu
  /\ smiCalls = 1
  /\ autoGpu = 1
  /\ runArgs.gpu = 1
  /\ toolCmd.d = 1
  /\ autoExit = 0
  /\ jobLog = <<[gpu |-> 1, path |-> PublishedCopyPath]>>

====
